---- MODULE Spec2Model ----
(***************************************************************************)
(* power_opt: N-1 contingency sweep (simular_n_menos_1), PyomoSolver       *)
(* build/solve, and the iterative loss engine                              *)
(* (PyomoSolver.aplicar_perdas_iterativamente with the helpers of          *)
(* solver/flags/perdas.py).                                                *)
(*                                                                         *)
(* Numbers.  Power quantities are Python floats in the source.  Here they  *)
(* are integers on a grid that is closed under every operation the engine  *)
(* performs on the chosen inputs: conductances are even (so 0.5 * perda is *)
(* exact), flows are multiples of every non-zero susceptance (so           *)
(* fluxo / b is exact) and JSON quantities are multiples of PB.            *)
(*                                                                         *)
(* Identifiers.  A string id is the pair <<letters, tail>> where tail is   *)
(* the part from the first digit on ("GT1" is <<"GT", "1">>);              *)
(* id.startswith("GF") is id[1] = "GF".                                    *)
(***************************************************************************)
EXTENDS Integers, Sequences, FiniteSets, TLC

VARIABLES
    json,            \* the system-description document behind json_path
    deltas,          \* simular_delta: the list of delta values to run
    df,              \* preparar_n_menos_1: the long table of results it is given
    df_final,        \* preparar_n_menos_1: the wide table it returns
    config_base,     \* the configuration dict handed to the driver
    pc,              \* position of the driver (simular_n_menos_1 or simular_delta)
    sistema_base,    \* simular_n_menos_1: sistema_base
    geradores_base,  \* simular_n_menos_1: geradores_base
    idx,             \* position in the driver's current for loop
    resultados,      \* simular_n_menos_1: resultados (one entry per scenario)
    removido,        \* element removed in the scenario in progress
    system,          \* PyomoSolver.system (the scenario's sistema)
    model,           \* PyomoSolver.model (the current ConcreteModel)
    config_flags,    \* PyomoSolver.config_flags
    model_built,     \* PyomoSolver.model_built
    perdas_finais,   \* PyomoSolver._perdas_finais
    resolvendo,      \* PyomoSolver._resolvendo_perdas
    spc,             \* position of the PyomoSolver life cycle
    erro,            \* exception that left the solver, if any
    iteracao,        \* aplicar_perdas_iterativamente: iteracao
    convergiu,       \* aplicar_perdas_iterativamente: convergiu
    carga_base,      \* aplicar_perdas_iterativamente: carga_base
    perdas_ant,      \* aplicar_perdas_iterativamente: perdas_ant
    hist             \* observation record of the run (calls made so far)

vars == <<json, deltas, df, df_final, config_base, pc, sistema_base, geradores_base,
          idx, resultados,
          removido, system, model, config_flags, model_built, perdas_finais,
          resolvendo, spc, erro, iteracao, convergiu, carga_base, perdas_ant,
          hist>>

sweepVars == <<pc, sistema_base, geradores_base, idx, resultados, removido>>
engineVars == <<iteracao, convergiu, carga_base, perdas_ant>>

-----------------------------------------------------------------------------
(* Bounds of the explored instances *)

MaxGeradores == 2   \* generators in the JSON document
MaxLinhas == 2      \* lines in the JSON document
MaxPeriodos == 2    \* periods in the load table
MaxVarsFluxo == 2   \* flow variables (lines x periods) of one instance
MaxDeltas == 2      \* delta values handed to simular_delta
MaxRechamadas == 1  \* further solve() calls on a solver that has solved

(* Program constants *)

max_iter == 40      \* default of aplicar_perdas_iterativamente
epsilon == 1        \* default 1e-16: below the smallest positive grid step
tolerancia == 1     \* 1e-6 of preparar_n_menos_1, in result units of 1e-6

-----------------------------------------------------------------------------
(* Generic helpers *)

None == "None"

Range(s) == {s[k] : k \in 1..Len(s)}

RECURSIVE SeqFilter(_, _)
\* the list comprehension [x for x in s if pred(x)], order kept
SeqFilter(s, keep) ==
    IF s = <<>> THEN <<>>
    ELSE (IF Head(s) \in keep THEN <<Head(s)>> ELSE <<>>) \o SeqFilter(Tail(s), keep)

RECURSIVE SeqsUpTo(_, _)
\* all sequences over S of length at most n
SeqsUpTo(S, n) ==
    IF n = 0 THEN {<<>>}
    ELSE LET shorter == SeqsUpTo(S, n - 1)
         IN shorter \cup {Append(s, x) : s \in {q \in shorter : Len(q) = n - 1}, x \in S}

RECURSIVE SumOver(_, _)
SumOver(f, S) ==
    IF S = {} THEN 0
    ELSE LET x == CHOOSE y \in S : TRUE IN f[x] + SumOver(f, S \ {x})

Abs(x) == IF x < 0 THEN -x ELSE x

-----------------------------------------------------------------------------
(* Dictionaries: a dict is a function whose DOMAIN is its key set *)

EmptyDict == [k \in {} |-> FALSE]

\* d.get(k, False)
Get(d, k) == IF k \in DOMAIN d THEN d[k] ELSE FALSE

\* d.update(e): keys of e override
Update(d, e) == [k \in DOMAIN d \cup DOMAIN e |-> IF k \in DOMAIN e THEN e[k] ELSE d[k]]

\* {k: v for k, v in d.items() if k in keys}
Restrict(d, keys) == [k \in DOMAIN d \cap keys |-> d[k]]

-----------------------------------------------------------------------------
(* Identifiers *)

B1 == <<"B", "1">>
B2 == <<"B", "2">>
B3 == <<"B", "3">>

\* re.search(r"\d.*", raw_id): the part from the first digit on, else raw_id
extrair_numero_id(raw_id) == IF raw_id[2] # "" THEN raw_id[2] ELSE raw_id[1]

\* f"GT{num_id}", f"GH{num_id}", f"GW{num_id}"
PrefixoTipo(tipo) ==
    CASE tipo = "thermal" -> "GT"
      [] tipo = "hydro" -> "GH"
      [] tipo = "wind" -> "GW"

\* g.id.startswith("GF")
StartsWithGF(id) == id[1] = "GF"

\* f"L{i}" for the i-th (0-based) line of the document
LineId(i) == <<"L", i>>

-----------------------------------------------------------------------------
(* DataLoader.load_system *)

\* _carregar_geradores: the generators attached to bus b, in document order
CarregarGeradores(data, b) ==
    LET gs == data.geradores
        RECURSIVE Go(_)
        Go(k) ==
            IF k > Len(gs) THEN <<>>
            ELSE (IF gs[k].barra = b
                  THEN <<[id |-> <<PrefixoTipo(gs[k].tipo), extrair_numero_id(gs[k].id)>>,
                          bus |-> gs[k].barra,
                          tipo |-> gs[k].tipo]>>
                  ELSE <<>>) \o Go(k + 1)
    IN Go(1)

\* _carregar_linhas
CarregarLinhas(data) ==
    [k \in 1..Len(data.linhas) |->
        [id |-> LineId(k - 1),
         from_bus |-> data.linhas[k].de,
         to_bus |-> data.linhas[k].para,
         limit |-> data.linhas[k].limite \div data.PB,
         susceptance |-> data.linhas[k].susceptancia \div data.PB,
         conductance |-> data.linhas[k].condutancia \div data.PB]]

\* _carregar_cargas
CarregarCargas(data) ==
    [p \in 1..Len(data.carga) |->
        [j \in 1..Len(data.carga[p]) |->
            [id |-> data.carga[p][j].id,
             bus |-> data.carga[p][j].barra,
             demand |-> data.carga[p][j].demanda \div data.PB,
             period |-> p - 1]]]

\* barras_com_carga of _adicionar_geradores_ficticios
BarrasComCarga(load_profile) ==
    UNION {{load_profile[p][j].bus : j \in 1..Len(load_profile[p])} :
              p \in 1..Len(load_profile)}

\* FictitiousGenerator(bus=bus_id, id_=f"GF{extrair_numero_id(bus_id)}")
GeradorFicticio(bus_id) ==
    [id |-> <<"GF", extrair_numero_id(bus_id)>>, bus |-> bus_id, tipo |-> "fictitious"]

\* variant of AdicionarGeradoresFicticios: a GF is appended at every bus
AdicionarFicticiosEmTodaBarra(generators, load_profile) ==
    [b \in DOMAIN generators |-> Append(generators[b], GeradorFicticio(b))]

\* _adicionar_geradores_ficticios: one GF appended at every bus with a load
AdicionarGeradoresFicticios(generators, load_profile) ==
    [b \in DOMAIN generators |->
        IF b \in BarrasComCarga(load_profile)
        THEN Append(generators[b], GeradorFicticio(b))
        ELSE generators[b]]

\* _carregar_deficits, branch without a "deficits" section: one Deficit per
\* (bus, period) that carries a load, max_deficit = total demand, cost 10000
CarregarDeficits(load_profile) ==
    LET RECURSIVE Periodo(_, _, _)
        Periodo(p, j, seen) ==
            IF j > Len(load_profile[p]) THEN <<>>
            ELSE LET b == load_profile[p][j].bus IN
                 IF b \in seen THEN Periodo(p, j + 1, seen)
                 ELSE <<[id |-> <<"CUT", b, p - 1>>,
                         bus |-> b,
                         period |-> p - 1,
                         max_deficit |->
                             SumOver([i \in 1..Len(load_profile[p]) |->
                                         IF load_profile[p][i].bus = b
                                         THEN load_profile[p][i].demand ELSE 0],
                                     1..Len(load_profile[p])),
                         cost |-> 10000]>> \o Periodo(p, j + 1, seen \cup {b})
        RECURSIVE Todos(_)
        Todos(p) == IF p > Len(load_profile) THEN <<>>
                    ELSE Periodo(p, 1, {}) \o Todos(p + 1)
    IN Todos(1)

\* variant of GarantirCargaMinima: the load table is left as it was read
CargasComoLidas(bus_ids, load_profile) == load_profile

\* _garantir_carga_minima: a zero load for every bus without one in a period
GarantirCargaMinima(bus_ids, load_profile) ==
    LET RECURSIVE Fill(_, _, _)
        Fill(cargas, k, p) ==
            IF k > Len(bus_ids) THEN cargas
            ELSE IF \E j \in 1..Len(cargas) : cargas[j].bus = bus_ids[k]
                 THEN Fill(cargas, k + 1, p)
                 ELSE Fill(Append(cargas, [id |-> <<"CF", bus_ids[k], p - 1>>,
                                            bus |-> bus_ids[k],
                                            demand |-> 0,
                                            period |-> p - 1]), k + 1, p)
    IN [p \in 1..Len(load_profile) |-> Fill(load_profile[p], 1, p)]

\* System.update_line_dict
update_line_dict(lines) ==
    [id \in {lines[k].id : k \in 1..Len(lines)} |->
        lines[CHOOSE k \in 1..Len(lines) :
                 lines[k].id = id /\ \A m \in (k + 1)..Len(lines) : lines[m].id # id]]

\* {(d.bus, d.period): d for d in deficits}: a later entry of the list
\* overrides an earlier one with the same key
MapaDeDeficits(deficits) ==
    [k \in {<<deficits[n].bus, deficits[n].period>> : n \in 1..Len(deficits)} |->
        deficits[CHOOSE n \in 1..Len(deficits) :
                    /\ <<deficits[n].bus, deficits[n].period>> = k
                    /\ \A m \in (n + 1)..Len(deficits) :
                           <<deficits[m].bus, deficits[m].period>> # k]]

\* the value None of an Optional[Deficit]
NenhumDeficit == [definido |-> FALSE]

\* System.get_deficit: self.deficit_map.get((bus, period))
get_deficit(sys, bus, period) ==
    IF <<bus, period>> \in DOMAIN sys.deficit_map
    THEN sys.deficit_map[<<bus, period>>]
    ELSE NenhumDeficit

\* DataLoader.load_system (deficit_map is the map System.__init__ built from
\* the deficit list of the new, empty System; nothing assigns it afterwards)
load_system(data) ==
    LET usar == Get(data.config, "usar_deficit")
        cfg == Update(data.config, [k \in {"usar_deficit"} |-> usar])
        gens == [b \in Range(data.barras) |-> CarregarGeradores(data, b)]
        lines == CarregarLinhas(data)
        cargas == CarregarCargas(data)
    IN [base_power |-> data.PB,
        config |-> cfg,
        bus_ids |-> data.barras,
        generators |-> IF usar THEN gens ELSE AdicionarGeradoresFicticios(gens, cargas),
        lines |-> lines,
        load_profile |-> GarantirCargaMinima(data.barras, cargas),
        deficits |-> IF usar THEN CarregarDeficits(cargas) ELSE <<>>,
        deficit_map |-> MapaDeDeficits(<<>>),
        line_dict |-> update_line_dict(lines)]

-----------------------------------------------------------------------------
(* The system-description documents explored *)

Barras == <<B1, B2, B3>>

GeradoresJson ==
    {[id |-> <<"G", "1">>, tipo |-> "thermal", barra |-> B1],
     [id |-> <<"G", "2">>, tipo |-> "thermal", barra |-> B1],
     [id |-> <<"G", "3">>, tipo |-> "hydro", barra |-> B2]}

LinhasJson ==
    {[de |-> B1, para |-> B2, limite |-> 4, susceptancia |-> 2, condutancia |-> 4],
     [de |-> B2, para |-> B3, limite |-> 4, susceptancia |-> 4, condutancia |-> 16],
     [de |-> B1, para |-> B2, limite |-> 4, susceptancia |-> 0, condutancia |-> 4]}

CargasJson ==
    {<<[id |-> <<"C", "1">>, barra |-> B2, demanda |-> 12]>>,
     <<[id |-> <<"C", "1">>, barra |-> B2, demanda |-> 8],
       [id |-> <<"C", "2">>, barra |-> B3, demanda |-> 4],
       [id |-> <<"C", "3">>, barra |-> B3, demanda |-> 6]>>}

\* documents identify generators uniquely (after the loader's id derivation)
IdsDistintos(gs) ==
    \A i, j \in 1..Len(gs) :
        i # j => <<PrefixoTipo(gs[i].tipo), extrair_numero_id(gs[i].id)>> #
                 <<PrefixoTipo(gs[j].tipo), extrair_numero_id(gs[j].id)>>

\* load tables of n periods: the same entries in every period, or the two
\* kinds of period alternating
Perfis(n, cargasJson) ==
    {[p \in 1..n |-> c] : c \in cargasJson} \cup
    {[p \in 1..n |-> IF p % 2 = 1 THEN c ELSE d] : c \in cargasJson, d \in cargasJson}

\* the documents: "PB" is 2 in all of them, every quantity a multiple of it
JsonDocs(geradores, linhasJson, cargasJson, usar) ==
    {[PB |-> 2,
      config |-> IF u THEN [k \in {"usar_deficit"} |-> TRUE] ELSE EmptyDict,
      barras |-> Barras,
      geradores |-> gs,
      linhas |-> lc[1],
      carga |-> lc[2]] :
        u \in usar,
        gs \in {q \in geradores : IdsDistintos(q)},
        lc \in UNION {UNION {{<<ls, cs>> : cs \in Perfis(n, cargasJson)} :
                                n \in {m \in 1..MaxPeriodos : Len(ls) * m <= MaxVarsFluxo}} :
                         ls \in SeqsUpTo(linhasJson, MaxLinhas)}}

-----------------------------------------------------------------------------
(* Views of a System *)

\* [g for bus in system.buses.values() for g in bus.generators]
TodosGeradores(sys) ==
    LET RECURSIVE Go(_)
        Go(k) == IF k > Len(sys.bus_ids) THEN <<>>
                 ELSE sys.generators[sys.bus_ids[k]] \o Go(k + 1)
    IN Go(1)

\* range(len(system.load_profile))
Periodos(sys) == 0..(Len(sys.load_profile) - 1)

\* the dict comprehension {(load.bus, t): load.demand for t, cargas in
\* enumerate(system.load_profile) for load in cargas}: a later load of the
\* same (bus, period) overwrites an earlier one
DictCargas(sys) ==
    LET lp == sys.load_profile
        Ultimo(b, p) == CHOOSE j \in 1..Len(lp[p]) :
                            /\ lp[p][j].bus = b
                            /\ \A m \in (j + 1)..Len(lp[p]) : lp[p][m].bus # b
    IN [k \in UNION {{<<lp[p][j].bus, p - 1>> : j \in 1..Len(lp[p])} : p \in 1..Len(lp)} |->
           lp[k[2] + 1][Ultimo(k[1], k[2] + 1)].demand]

-----------------------------------------------------------------------------
(* model_builder.build_model: the components a ConcreteModel carries.      *)
(* A model under construction holds comps, the names defined so far, the   *)
(* exception raised, if any (falhou, and in falta the component a stage    *)
(* read before anything defined it), and the structure of what was built:  *)
(* the variables an equation mentions and the terms of the expressions.    *)

\* model.<name> = Component(...) for every name of names: a name the
\* instance already holds is replaced (Pyomo logs "Implicitly replacing the
\* Component attribute"), and redefinidos keeps it
Define(m, names) ==
    [m EXCEPT !.comps = @ \cup names, !.redefinidos = @ \cup (names \cap m.comps)]
Raise(m, exc) == [m EXCEPT !.falhou = exc]

\* AttributeError of model.<nome>: no stage has defined the component yet
RaiseFalta(m, nome) == [m EXCEPT !.falhou = "AttributeError", !.falta = nome]

\* model.G
IdsGeradores(sys) ==
    LET gens == TodosGeradores(sys) IN {gens[k].id : k \in 1..Len(gens)}

\* [(d.bus, d.period) for d in system.deficits]
IndiceD(sys) ==
    {<<sys.deficits[k].bus, sys.deficits[k].period>> : k \in 1..Len(sys.deficits)}

\* one term peso * param[...] * var[idx] of a linear expression; versao
\* tells the successive Deficit variables of an instance apart (0 for P)
Termo(var, versao, chave, param, peso) ==
    [var |-> var, versao |-> versao, idx |-> chave, param |-> param, peso |-> peso]

\* a rule that returns a Python bool instead of an expression: Constraint
\* rejects it with ValueError
Trivial(eq) == eq.P = {} /\ eq.entrada = {} /\ eq.saida = {} /\ eq.Deficit = {}

definir_conjuntos(m, sys) ==
    LET base == Define(m, {"G", "B", "T", "L"})
    IN IF Get(sys.config, "usar_deficit") THEN Define(base, {"D"}) ELSE base

definir_parametros(m, sys) ==
    LET gens == TodosGeradores(sys)
        base == {"custo", "gmin", "gmax", "demanda", "base", "delta"}
    IN IF m.falhou # None THEN m
       \* g.cost exists for thermal and fictitious generators only
       ELSE IF \E k \in 1..Len(gens) : gens[k].tipo \notin {"thermal", "fictitious"}
       THEN Raise(m, "AttributeError")
       ELSE IF Get(sys.config, "considerar_emissao") /\ "custo_emissao" \notin DOMAIN sys.config
       THEN Raise(Define(m, base \cup {"emissao"}), "KeyError")
       ELSE Define(m, base
                      \cup (IF Get(sys.config, "considerar_emissao")
                            THEN {"emissao", "custo_emissao"} ELSE {})
                      \cup (IF Get(sys.config, "considerar_rampa") THEN {"rampa"} ELSE {})
                      \cup (IF Get(sys.config, "usar_deficit") /\ "D" \in m.comps
                            THEN {"cost_deficit", "max_deficit"} ELSE {})
                      \cup (IF Get(sys.config, "considerar_fluxo")
                            THEN {"susceptance", "conductance", "f_max"} ELSE {}))

definir_variaveis(m, sys) ==
    LET limpo == m.comps \ {"F", "Deficit", "dual", "P"}
    IN IF m.falhou # None THEN m
       \* model.Deficit = Var(model.D) reads model.D
       ELSE IF sys.deficits # <<>> /\ "D" \notin m.comps
       THEN RaiseFalta([m EXCEPT !.comps = limpo \cup {"P"}, !.Deficit.indice = {}], "D")
       ELSE [m EXCEPT
                !.comps = limpo \cup {"P", "dual"}
                             \cup (IF sys.deficits # <<>> THEN {"Deficit"} ELSE {})
                             \cup (IF Get(sys.config, "considerar_fluxo") THEN {"F"} ELSE {}),
                !.Deficit = IF sys.deficits # <<>>
                            THEN [versao |-> @.versao + 1, indice |-> IndiceD(sys)]
                            ELSE [@ EXCEPT !.indice = {}]]

\* variant of aplicar_transporte: the per-bus balance leaves out the flow
\* that leaves the bus
aplicar_transporte_sem_saida(m, sys) ==
    LET T == Periodos(sys)
        B == Range(sys.bus_ids)
        deficit == Get(sys.config, "deficit")
        cargas == DOMAIN DictCargas(sys)
        linhas(b, ponta) ==
            {sys.lines[k].id : k \in {n \in 1..Len(sys.lines) :
                                          IF ponta = "to" THEN sys.lines[n].to_bus = b
                                          ELSE sys.lines[n].from_bus = b}}
        \* balanco_por_barra(model, b, t)
        por_barra(mm, b, t) ==
            [P |-> {<<sys.generators[b][k].id, t>> : k \in 1..Len(sys.generators[b])},
             entrada |-> {<<l, t>> : l \in linhas(b, "to")},
             saida |-> {},
             Deficit |-> IF deficit /\ <<b, t>> \in IndiceD(sys)
                         THEN {[idx |-> <<b, t>>, versao |-> mm.Deficit.versao]} ELSE {},
             carga |-> IF <<b, t>> \in cargas THEN {<<b, t>>} ELSE {}]
        \* balanco_total(model, t)
        total(mm, t) ==
            [P |-> {<<g, t>> : g \in IdsGeradores(sys)},
             entrada |-> {},
             saida |-> {},
             Deficit |-> IF deficit
                         THEN {[idx |-> <<k[1], t>>, versao |-> mm.Deficit.versao] :
                                  k \in {d \in IndiceD(sys) : d[2] = t}}
                         ELSE {},
             carga |-> {<<b, t>> : b \in B}]
        fluxo == {"susceptance", "conductance", "f_max", "F"}
    IN IF m.falhou # None THEN m
       ELSE IF Get(sys.config, "transporte")
       THEN \* balanco_por_barra reads model.D when the deficit flag is set
            \* (model.Deficit exists whenever model.D has a member)
            IF B \X T # {} /\ deficit /\ "D" \notin m.comps
            THEN RaiseFalta(Define(m, fluxo), "D")
            ELSE IF \E k \in B \X T : Trivial(por_barra(m, k[1], k[2]))
            THEN Raise(Define(m, fluxo), "ValueError")
            ELSE Define([m EXCEPT !.balanco =
                            [indice |-> "B,T",
                             eqs |-> [k \in B \X T |-> por_barra(m, k[1], k[2])]]],
                        fluxo \cup {"balanco", "restr_fluxo_sup", "restr_fluxo_inf"})
       ELSE \* model.demanda has no default: a missing (b, t) is an error
            IF \E t \in T : \E b \in B : <<b, t>> \notin cargas
            THEN Raise(m, "ValueError")
            \* balanco_total iterates model.D when the deficit flag is set
            ELSE IF T # {} /\ deficit /\ "D" \notin m.comps
            THEN RaiseFalta(m, "D")
            ELSE IF \E t \in T : Trivial(total(m, t))
            THEN Raise(m, "ValueError")
            ELSE Define([m EXCEPT !.balanco =
                            [indice |-> "T",
                             eqs |-> [k \in {<<t>> : t \in T} |-> total(m, k[1])]]],
                        {"balanco"})

\* flags/transporte.py
aplicar_transporte(m, sys) ==
    LET T == Periodos(sys)
        B == Range(sys.bus_ids)
        deficit == Get(sys.config, "deficit")
        cargas == DOMAIN DictCargas(sys)
        linhas(b, ponta) ==
            {sys.lines[k].id : k \in {n \in 1..Len(sys.lines) :
                                          IF ponta = "to" THEN sys.lines[n].to_bus = b
                                          ELSE sys.lines[n].from_bus = b}}
        \* balanco_por_barra(model, b, t)
        por_barra(mm, b, t) ==
            [P |-> {<<sys.generators[b][k].id, t>> : k \in 1..Len(sys.generators[b])},
             entrada |-> {<<l, t>> : l \in linhas(b, "to")},
             saida |-> {<<l, t>> : l \in linhas(b, "from")},
             Deficit |-> IF deficit /\ <<b, t>> \in IndiceD(sys)
                         THEN {[idx |-> <<b, t>>, versao |-> mm.Deficit.versao]} ELSE {},
             carga |-> IF <<b, t>> \in cargas THEN {<<b, t>>} ELSE {}]
        \* balanco_total(model, t)
        total(mm, t) ==
            [P |-> {<<g, t>> : g \in IdsGeradores(sys)},
             entrada |-> {},
             saida |-> {},
             Deficit |-> IF deficit
                         THEN {[idx |-> <<k[1], t>>, versao |-> mm.Deficit.versao] :
                                  k \in {d \in IndiceD(sys) : d[2] = t}}
                         ELSE {},
             carga |-> {<<b, t>> : b \in B}]
        fluxo == {"susceptance", "conductance", "f_max", "F"}
    IN IF m.falhou # None THEN m
       ELSE IF Get(sys.config, "transporte")
       THEN \* balanco_por_barra reads model.D when the deficit flag is set
            \* (model.Deficit exists whenever model.D has a member)
            IF B \X T # {} /\ deficit /\ "D" \notin m.comps
            THEN RaiseFalta(Define(m, fluxo), "D")
            ELSE IF \E k \in B \X T : Trivial(por_barra(m, k[1], k[2]))
            THEN Raise(Define(m, fluxo), "ValueError")
            ELSE Define([m EXCEPT !.balanco =
                            [indice |-> "B,T",
                             eqs |-> [k \in B \X T |-> por_barra(m, k[1], k[2])]]],
                        fluxo \cup {"balanco", "restr_fluxo_sup", "restr_fluxo_inf"})
       ELSE \* model.demanda has no default: a missing (b, t) is an error
            IF \E t \in T : \E b \in B : <<b, t>> \notin cargas
            THEN Raise(m, "ValueError")
            \* balanco_total iterates model.D when the deficit flag is set
            ELSE IF T # {} /\ deficit /\ "D" \notin m.comps
            THEN RaiseFalta(m, "D")
            ELSE IF \E t \in T : Trivial(total(m, t))
            THEN Raise(m, "ValueError")
            ELSE Define([m EXCEPT !.balanco =
                            [indice |-> "T",
                             eqs |-> [k \in {<<t>> : t \in T} |-> total(m, k[1])]]],
                        {"balanco"})

\* variant of aplicar_rampa: only the upward limit is imposed
aplicar_rampa_so_subida(m, sys) ==
    IF m.falhou # None THEN m
    ELSE IF Get(sys.config, "rampa")
    THEN Define([m EXCEPT !.rampa_sup =
                     [k \in {q \in IdsGeradores(sys) \X Periodos(sys) : q[2] # 0} |->
                         [maior |-> k, menor |-> <<k[1], k[2] - 1>>, limite |-> k[1]]]],
                {"rampa", "rampa_sup"})
    ELSE m

\* flags/rampa.py: maior - menor <= rampa[limite], skipped at t = 0
aplicar_rampa(m, sys) ==
    LET chaves == {k \in IdsGeradores(sys) \X Periodos(sys) : k[2] # 0}
    IN IF m.falhou # None THEN m
       ELSE IF Get(sys.config, "rampa")
       THEN Define([m EXCEPT
                       !.rampa_inf = [k \in chaves |-> [maior |-> <<k[1], k[2] - 1>>,
                                                     menor |-> k,
                                                     limite |-> k[1]]],
                       !.rampa_sup = [k \in chaves |-> [maior |-> k,
                                                     menor |-> <<k[1], k[2] - 1>>,
                                                     limite |-> k[1]]]],
                   {"rampa", "rampa_inf", "rampa_sup"})
       ELSE m

\* flags/deficit.py
aplicar_deficit(m, sys) ==
    LET T == Periodos(sys)
        B == Range(sys.bus_ids)
        GF == {g \in IdsGeradores(sys) : StartsWithGF(g)}
        versao == m.Deficit.versao + 1
    IN IF m.falhou # None THEN m
       ELSE IF Get(sys.config, "deficit")
       THEN Define([m EXCEPT
                       !.restringe_GF = GF \X T,
                       !.Deficit = [versao |-> versao, indice |-> B \X T],
                       !.limite_deficit = B \X T,
                       !.custo_deficit =
                           {Termo("Deficit", versao, k, "cost_deficit", 1) : k \in B \X T}],
                   {"GF", "restringe_GF", "D", "cost_deficit", "max_deficit",
                    "Deficit", "limite_deficit", "custo_deficit"})
       ELSE Define([m EXCEPT
                       !.custo_deficit =
                           {Termo("P", 0, k, "custo", 1) : k \in GF \X T}],
                   {"custo_deficit"})

definir_restricoes(m, sys) ==
    IF m.falhou # None THEN m
    ELSE aplicar_deficit(
             aplicar_rampa(aplicar_transporte(Define(m, {"limites"}), sys), sys), sys)

\* variant of aplicar_emissao: the generation cost is weighted by delta
\* whether or not the emission flag is set
aplicar_emissao_sempre_delta(m, sys) ==
    LET delta == IF "delta" \in DOMAIN sys.config THEN sys.config["delta"] ELSE 1
        reais == {g \in IdsGeradores(sys) : ~StartsWithGF(g)}
    IN IF m.falhou # None THEN m
       ELSE Define([m EXCEPT !.fob_emissao =
                       {Termo("P", 0, k, "custo", delta) : k \in reais \X Periodos(sys)}],
                   {"fob_emissao"})

\* flags/emissao.py
aplicar_emissao(m, sys) ==
    LET T == Periodos(sys)
        G == IdsGeradores(sys)
        reais == {g \in G : ~StartsWithGF(g)}
        \* model.delta = Param(initialize=system.config.get("delta", 1))
        delta == IF "delta" \in DOMAIN sys.config THEN sys.config["delta"] ELSE 1
    IN IF m.falhou # None THEN m
       ELSE IF Get(sys.config, "emissao")
       THEN IF "custo_emissao" \in DOMAIN sys.config
            THEN Define([m EXCEPT !.fob_emissao =
                            {Termo("P", 0, k, "custo", delta) : k \in reais \X T} \cup
                            {Termo("P", 0, k, "emissao",
                                   (1 - delta) * sys.config["custo_emissao"]) :
                                k \in G \X T}],
                        {"custo_base", "emissao", "custo_emissao", "fob_emissao"})
            ELSE Raise(Define(m, {"custo_base", "emissao"}), "KeyError")
       ELSE Define([m EXCEPT !.fob_emissao =
                       {Termo("P", 0, k, "custo", 1) : k \in reais \X T}],
                   {"fob_emissao"})

\* objetivo = fob_emissao.expr + custo_deficit.expr
\* model.objetivo = Objective(rule=f_obj): reads the two expressions
Objective(m) ==
    IF m.falhou # None THEN m
    ELSE Define([m EXCEPT !.objetivo = [fob_emissao |-> m.fob_emissao,
                                        custo_deficit |-> m.custo_deficit]],
                {"objetivo"})

definir_objetivo(m, sys) == Objective(aplicar_emissao(m, sys))

\* build_model(model, system): the five stages in their fixed order; an
\* exception in a stage ends the construction there (every later stage and
\* flag applier hands the failed model on untouched)
build_model(m, sys) ==
    definir_objetivo(
        definir_restricoes(
            definir_variaveis(
                definir_parametros(definir_conjuntos(m, sys), sys), sys), sys), sys)

-----------------------------------------------------------------------------
(* ConcreteModel instances and the external solver *)

\* ConcreteModel(): an empty instance; serial tells instances apart
ConcreteModel(serial) ==
    [serial |-> serial, comps |-> {}, redefinidos |-> {}, falhou |-> None, falta |-> None,
     L |-> {}, T |-> {}, B |-> {},
     demanda |-> EmptyDict, susceptance |-> EmptyDict, conductance |-> EmptyDict,
     Deficit |-> [versao |-> 0, indice |-> {}],
     restringe_GF |-> {}, limite_deficit |-> {},
     balanco |-> [indice |-> "", eqs |-> EmptyDict],
     rampa_inf |-> EmptyDict, rampa_sup |-> EmptyDict,
     fob_emissao |-> {}, custo_deficit |-> {},
     objetivo |-> [fob_emissao |-> {}, custo_deficit |-> {}],
     sol |-> None, solves |-> 0]

\* the data the Set and Param components of a built instance b were
\* initialised with (copied from the System at build time)
Dados(b, sys) ==
    LET ids == {sys.lines[k].id : k \in 1..Len(sys.lines)}
        porId(id) == sys.lines[CHOOSE k \in 1..Len(sys.lines) :
                                  sys.lines[k].id = id
                                  /\ \A n \in (k + 1)..Len(sys.lines) : sys.lines[n].id # id]
    IN [b EXCEPT !.L = ids,
                 !.T = Periodos(sys),
                 !.B = Range(sys.bus_ids),
                 !.demanda = DictCargas(sys),
                 !.susceptance = IF "susceptance" \in b.comps
                                 THEN [id \in ids |-> porId(id).susceptance] ELSE EmptyDict,
                 !.conductance = IF "conductance" \in b.comps
                                 THEN [id \in ids |-> porId(id).conductance] ELSE EmptyDict]

\* build_model on the instance m: components plus their data
Construir(m, sys) == Dados(build_model(m, sys), sys)

\* values the solver may assign to a flow / to an angle
FlowVals == {0, 2}
ThetaVals == {0, 1}

\* the variable assignments solver.solve may leave in the instance: every
\* declared flow (and angle) variable gets some value of the grid
Solucoes(m) ==
    {[F |-> f, theta |-> th] :
        f \in IF "F" \in m.comps THEN [m.L \X m.T -> FlowVals] ELSE {EmptyDict},
        th \in IF "theta" \in m.comps THEN [m.B \X m.T -> ThetaVals] ELSE {EmptyDict}}

-----------------------------------------------------------------------------
(* solver/flags/perdas.py *)

inicializar_perdas(sys) == [k \in Range(sys.bus_ids) \X Periodos(sys) |-> 0]

armazenar_carga_base(sys) == DictCargas(sys)

\* variant of Metade: each end bus is charged the whole loss of the line
PerdaInteira(perda) == perda

\* 0.5 * perda (exact: every perda of the grid is even)
Metade(perda) == perda \div 2

\* loss of one line in one period, lines 54-60
PerdaLinha(m, sys, linha, t) ==
    LET g == m.conductance[linha.id]
        b == m.susceptance[linha.id]
    IN IF Get(sys.config, "fluxo_dc")
       THEN LET d == m.sol.theta[<<linha.from_bus, t>>] - m.sol.theta[<<linha.to_bus, t>>]
            IN g * (d * d)
       ELSE LET fluxo == m.sol.F[<<linha.id, t>>]
            IN g * (IF b # 0 THEN (fluxo \div b) * (fluxo \div b) ELSE 0)

\* calcular_perdas(model, system): [falhou, perdas, perda_total]
calcular_perdas(m, sys) ==
    LET nT == Len(sys.load_profile)
        missing ==
            /\ sys.lines # <<>>
            /\ \/ "conductance" \notin m.comps
               \/ "susceptance" \notin m.comps
               \/ /\ m.T # {}
                  /\ IF Get(sys.config, "fluxo_dc") THEN "theta" \notin m.comps
                     ELSE "F" \notin m.comps
        RECURSIVE Go(_, _, _)
        \* the two nested for loops: line k, period t, accumulator acc
        Go(k, t, acc) ==
            IF k > Len(sys.lines) THEN acc
            ELSE IF t \notin m.T THEN Go(k + 1, 0, acc)
            ELSE LET linha == sys.lines[k]
                     perda == PerdaLinha(m, sys, linha, t)
                     p1 == [acc.perdas EXCEPT ![<<linha.from_bus, t>>] = @ + Metade(perda)]
                     p2 == [p1 EXCEPT ![<<linha.to_bus, t>>] = @ + Metade(perda)]
                 IN Go(k, t + 1, [perdas |-> p2, perda_total |-> acc.perda_total + perda])
        zero == [perdas |-> inicializar_perdas(sys), perda_total |-> 0]
    IN IF missing
       THEN [falhou |-> "AttributeError", perdas |-> zero.perdas, perda_total |-> 0]
       ELSE LET r == Go(1, 0, zero)
            IN [falhou |-> None, perdas |-> r.perdas, perda_total |-> r.perda_total]

\* variant of atualizar_cargas_com_perdas: the loss is added to the demand
\* the load holds
atualizar_cargas_acumulando(sys, base, perdas) ==
    [sys EXCEPT !.load_profile =
        [p \in 1..Len(sys.load_profile) |->
            [j \in 1..Len(sys.load_profile[p]) |->
                LET chave == <<sys.load_profile[p][j].bus, p - 1>>
                IN [sys.load_profile[p][j] EXCEPT !.demand = @ + perdas[chave]]]]]

\* atualizar_cargas_com_perdas: every load of (bus, t) gets base + loss
atualizar_cargas_com_perdas(sys, base, perdas) ==
    [sys EXCEPT !.load_profile =
        [p \in 1..Len(sys.load_profile) |->
            [j \in 1..Len(sys.load_profile[p]) |->
                LET chave == <<sys.load_profile[p][j].bus, p - 1>>
                IN [sys.load_profile[p][j] EXCEPT !.demand = base[chave] + perdas[chave]]]]]

\* variant of calcular_diferenca_perdas: the differences are summed with
\* their signs
diferenca_com_sinal(p1, p2) ==
    SumOver([k \in DOMAIN p1 |-> p2[k] - p1[k]], DOMAIN p1)

\* calcular_diferenca_perdas(p1, p2)
calcular_diferenca_perdas(p1, p2) ==
    SumOver([k \in DOMAIN p1 |-> Abs(p2[k] - p1[k])], DOMAIN p1)

-----------------------------------------------------------------------------
(* utils/converter.py and solver/handler/result_handler.py *)

solver_keys == {"solver_name", "tee", "tolerancia"}

\* split_config(config): (config_modelo, config_solver)
split_config(config) ==
    <<Restrict(config, DOMAIN config \ solver_keys), Restrict(config, solver_keys)>>

VF(b) == IF b THEN "V" ELSE "F"

\* extrair_resultados: the simulation id that tags every row of the result
\* (the rows themselves, values read from the solved instance, are not kept)
extrair_resultados(sys, elemento_removido) ==
    LET c == sys.config
        fluxo_dc == VF(Get(c, "fluxo_dc"))
        transporte == IF fluxo_dc = "V" THEN "F" ELSE VF(Get(c, "transporte"))
    IN [simulacao |-> <<IF "delta" \in DOMAIN c THEN c["delta"] * 100 ELSE 0,
                        VF(Get(c, "emissao")), transporte, fluxo_dc,
                        VF(Get(c, "perdas")), VF(Get(c, "rampa")), VF(Get(c, "deficit")),
                        elemento_removido>>]

-----------------------------------------------------------------------------
(* PyomoSolver *)

Registrar(h, ev) ==
    [h EXCEPT !.ultimo = ev,
              !.solves = IF ev = "solve" THEN @ + 1 ELSE @,
              !.builds = IF ev = "build" THEN @ + 1 ELSE @,
              !.calcs = IF ev = "calc" THEN @ + 1 ELSE @,
              !.modelos = IF ev = "novo_modelo" THEN @ + 1 ELSE @,
              !.rechamadas = IF ev = "nova_chamada" THEN @ + 1 ELSE @]

HistInicial ==
    [ultimo |-> "nada", solves |-> 0, builds |-> 0, calcs |-> 0, modelos |-> 0,
     rechamadas |-> 0,
     perdas |-> EmptyDict]

\* self._perdas_finais before the engine sets it (the attribute is unset)
SemPerdasFinais == [definido |-> FALSE, perda_linha |-> EmptyDict, perda_total |-> 0]

\* an exception leaves the solver
Levantar(exc) ==
    /\ spc' = "erro"
    /\ erro' = exc

\* variant of Build: the assembly consumes the flags it read from the
\* System's configuration
BuildConsumindoFlags ==
    /\ spc = "novo"
    /\ \E m \in {Construir(model, system)} :
          /\ config_flags' = split_config(config_base)[1]
          /\ model' = m
          /\ hist' = Registrar(hist, "build")
          /\ IF m.falhou # None
             THEN /\ Levantar(m.falhou)
                  /\ UNCHANGED model_built
             ELSE /\ spc' = "construido"
                  /\ model_built' = TRUE
                  /\ UNCHANGED erro
    /\ system' = [system EXCEPT
                      !.config = Restrict(@, DOMAIN @ \ {"transporte", "deficit", "rampa", "emissao"})]
    /\ UNCHANGED <<json, deltas, df, df_final>>
    /\ UNCHANGED <<config_base, perdas_finais, resolvendo>>
    /\ UNCHANGED sweepVars
    /\ UNCHANGED engineVars

\* PyomoSolver.build(**kwargs), called on a solver that was just constructed
Build ==
    /\ spc = "novo"
    /\ \E m \in {Construir(model, system)} :
          /\ config_flags' = split_config(config_base)[1]
          /\ model' = m
          /\ hist' = Registrar(hist, "build")
          /\ IF m.falhou # None
             THEN /\ Levantar(m.falhou)
                  /\ UNCHANGED model_built
             ELSE /\ spc' = "construido"
                  /\ model_built' = TRUE
                  /\ UNCHANGED erro
    /\ UNCHANGED <<json, deltas, df, df_final>>
    /\ UNCHANGED <<config_base, system, perdas_finais, resolvendo>>
    /\ UNCHANGED sweepVars
    /\ UNCHANGED engineVars

\* PyomoSolver.solve, branch without losses: one solver call
SolveDireto ==
    /\ spc = "construido"
    /\ ~Get(config_flags, "considerar_perdas")
    /\ hist' = Registrar(hist, "solve")
    /\ \/ \E sol \in Solucoes(model) :
            /\ model' = [model EXCEPT !.sol = sol, !.solves = @ + 1]
            /\ spc' = "resolvido"
            /\ UNCHANGED erro
       \/ /\ Levantar("SolverError")
          /\ UNCHANGED model
    /\ UNCHANGED <<json, deltas, df, df_final>>
    /\ UNCHANGED <<config_base, system, config_flags, model_built,
                   perdas_finais, resolvendo>>
    /\ UNCHANGED sweepVars
    /\ UNCHANGED engineVars

\* PyomoSolver.solve, branch with losses: entry of
\* aplicar_perdas_iterativamente, lines 187-192
IniciarPerdas ==
    /\ spc = "construido"
    /\ Get(config_flags, "considerar_perdas")
    /\ resolvendo' = TRUE
    /\ iteracao' = 0
    /\ convergiu' = FALSE
    /\ carga_base' = armazenar_carga_base(system)
    /\ perdas_ant' = inicializar_perdas(system)
    /\ spc' = "loop"
    /\ UNCHANGED <<json, deltas, df, df_final>>
    /\ UNCHANGED <<config_base, system, model, config_flags, model_built,
                   perdas_finais, erro, hist>>
    /\ UNCHANGED sweepVars

\* one pass of the while loop, lines 194-230 (hist.perdas keeps the per-bus
\* loss the pass computed)
IterarPerdas ==
    /\ spc = "loop"
    /\ ~convergiu /\ iteracao < max_iter
    /\ \/ \E sol \in Solucoes(model) :
            LET m1 == [model EXCEPT !.sol = sol, !.solves = @ + 1]
                r == calcular_perdas(m1, system)
                h1 == [Registrar(Registrar(hist, "solve"), "calc") EXCEPT
                          !.perdas = IF r.falhou = None THEN r.perdas ELSE @]
                sys1 == atualizar_cargas_com_perdas(system, carga_base, r.perdas)
                delta == calcular_diferenca_perdas(perdas_ant, r.perdas)
            IN IF r.falhou # None
               THEN /\ Levantar(r.falhou)
                    /\ model' = m1
                    /\ hist' = h1
                    /\ UNCHANGED <<system, perdas_finais, model_built, config_flags>>
                    /\ UNCHANGED engineVars
               ELSE IF delta < epsilon
               THEN /\ convergiu' = TRUE
                    /\ perdas_finais' = [definido |-> TRUE, perda_linha |-> r.perdas,
                                         perda_total |-> r.perda_total]
                    /\ system' = sys1
                    /\ model' = m1
                    /\ hist' = h1
                    /\ iteracao' = iteracao + 1
                    /\ UNCHANGED <<perdas_ant, carga_base, model_built, config_flags,
                                   spc, erro>>
               ELSE \E m2 \in {Construir(ConcreteModel(hist.modelos + 1), sys1)} :
                       /\ perdas_ant' = r.perdas
                       /\ system' = sys1
                       /\ model' = m2
                       /\ hist' = Registrar(Registrar(h1, "novo_modelo"), "build")
                       /\ config_flags' = config_flags
                       /\ IF m2.falhou # None
                          THEN /\ Levantar(m2.falhou)
                               /\ UNCHANGED <<iteracao, model_built>>
                          ELSE /\ model_built' = TRUE
                               /\ iteracao' = iteracao + 1
                               /\ UNCHANGED <<spc, erro>>
                       /\ UNCHANGED <<convergiu, carga_base, perdas_finais>>
       \/ /\ Levantar("SolverError")
          /\ hist' = Registrar(hist, "solve")
          /\ UNCHANGED <<system, model, perdas_finais, model_built, config_flags>>
          /\ UNCHANGED engineVars
    /\ UNCHANGED <<json, deltas, df, df_final>>
    /\ UNCHANGED <<config_base, resolvendo>>
    /\ UNCHANGED sweepVars

\* variant of FalharPerdas: an exhausted loop goes on to the final rebuild as
\* if it had converged on its last estimate
FalharPerdasSilencioso ==
    /\ spc = "loop"
    /\ ~(~convergiu /\ iteracao < max_iter)
    /\ ~convergiu
    /\ convergiu' = TRUE
    /\ perdas_finais' = [definido |-> TRUE, perda_linha |-> perdas_ant,
                         perda_total |-> 0]
    /\ UNCHANGED <<json, deltas, df, df_final>>
    /\ UNCHANGED <<config_base, system, model, config_flags, model_built,
                   resolvendo, hist, spc, erro, iteracao, carga_base, perdas_ant>>
    /\ UNCHANGED sweepVars

\* loop left without convergence, lines 232-234
FalharPerdas ==
    /\ spc = "loop"
    /\ ~(~convergiu /\ iteracao < max_iter)
    /\ ~convergiu
    /\ Levantar("RuntimeError")
    /\ UNCHANGED <<json, deltas, df, df_final>>
    /\ UNCHANGED <<config_base, system, model, config_flags, model_built,
                   perdas_finais, resolvendo, hist>>
    /\ UNCHANGED sweepVars
    /\ UNCHANGED engineVars

\* variant of FinalizarPerdas: the instance of the converged pass is solved
\* again instead of a newly built one
FinalizarPerdasSemReconstruir ==
    /\ spc = "loop"
    /\ ~(~convergiu /\ iteracao < max_iter)
    /\ convergiu
    /\ hist' = Registrar(hist, "solve")
    /\ \/ \E sol \in Solucoes(model) :
            /\ model' = [model EXCEPT !.sol = sol, !.solves = @ + 1]
            /\ resolvendo' = FALSE
            /\ spc' = "resolvido"
            /\ UNCHANGED erro
       \/ /\ Levantar("SolverError")
          /\ UNCHANGED <<model, resolvendo>>
    /\ UNCHANGED <<json, deltas, df, df_final>>
    /\ UNCHANGED <<config_base, system, config_flags, perdas_finais, model_built>>
    /\ UNCHANGED sweepVars
    /\ UNCHANGED engineVars

\* loop left converged: final rebuild and solve, lines 236-250
FinalizarPerdas ==
    /\ spc = "loop"
    /\ ~(~convergiu /\ iteracao < max_iter)
    /\ convergiu
    /\ \E m1 \in {Construir(ConcreteModel(hist.modelos + 1), system)} :
       LET h1 == Registrar(Registrar(hist, "novo_modelo"), "build")
       IN IF m1.falhou # None
          THEN /\ Levantar(m1.falhou)
               /\ model' = m1
               /\ hist' = h1
               /\ model_built' = FALSE
               /\ UNCHANGED resolvendo
          ELSE /\ hist' = Registrar(h1, "solve")
               /\ model_built' = TRUE
               /\ \/ \E sol \in Solucoes(m1) :
                       /\ model' = [m1 EXCEPT !.sol = sol, !.solves = @ + 1]
                       /\ resolvendo' = FALSE
                       /\ spc' = "resolvido"
                       /\ UNCHANGED erro
                  \/ /\ Levantar("SolverError")
                     /\ model' = m1
                     /\ UNCHANGED resolvendo
    /\ UNCHANGED <<json, deltas, df, df_final>>
    /\ UNCHANGED <<config_base, system, config_flags, perdas_finais>>
    /\ UNCHANGED sweepVars
    /\ UNCHANGED engineVars

\* solve() called again, with losses, on a solver whose solve() has
\* returned: aplicar_perdas_iterativamente starts over (lines 187-192) on the
\* System and the instance the previous call left
IniciarPerdasDeNovo ==
    /\ spc = "resolvido"
    /\ Get(config_flags, "considerar_perdas")
    /\ hist.rechamadas < MaxRechamadas
    /\ resolvendo' = TRUE
    /\ iteracao' = 0
    /\ convergiu' = FALSE
    /\ carga_base' = armazenar_carga_base(system)
    /\ perdas_ant' = inicializar_perdas(system)
    /\ spc' = "loop"
    /\ hist' = Registrar(hist, "nova_chamada")
    /\ UNCHANGED <<json, deltas, df, df_final>>
    /\ UNCHANGED <<config_base, system, model, config_flags, model_built,
                   perdas_finais, erro>>
    /\ UNCHANGED sweepVars

-----------------------------------------------------------------------------
(* experiments/experimentos.py: simular_n_menos_1 *)

\* PyomoSolver(sistema): __init__
NovoSolver(sistema) ==
    /\ system' = sistema
    /\ model' = ConcreteModel(1)
    /\ hist' = Registrar(HistInicial, "novo_modelo")
    /\ resolvendo' = FALSE
    /\ config_flags' = EmptyDict
    /\ model_built' = FALSE
    /\ perdas_finais' = SemPerdasFinais
    /\ spc' = "novo"
    /\ erro' = None
    /\ iteracao' = 0
    /\ convergiu' = FALSE
    /\ carga_base' = EmptyDict
    /\ perdas_ant' = EmptyDict

\* variant of CarregarSistema: the System of the previous scenario is used
\* again instead of a newly loaded one
CarregarSistemaReusado ==
    IF hist.modelos = 0
    THEN [load_system(json) EXCEPT !.config = Update(@, config_base)]
    ELSE system

\* DataLoader(json_path, ...).load_system() followed by
\* sistema.config.update(config_base)
CarregarSistema ==
    LET sistema == load_system(json)
    IN [sistema EXCEPT !.config = Update(@, config_base)]

\* bus.generators = [g for g in bus.generators if g.id != gerador.id]
RemoverGerador(sistema, gerador) ==
    [sistema EXCEPT !.generators[gerador.bus] =
        SeqFilter(@, {g \in Range(@) : g.id # gerador.id})]

\* variant of RemoverLinha: the line list is filtered and the line index is
\* left as it was
RemoverLinhaSemAtualizar(sistema, linha) ==
    [sistema EXCEPT
        !.lines = SeqFilter(@, {l \in Range(@) : l.id # linha.id})]

\* sistema.lines = [l for l in sistema.lines if l.id != linha.id]
\* sistema.update_line_dict()
RemoverLinha(sistema, linha) ==
    LET ls == SeqFilter(sistema.lines, {l \in Range(sistema.lines) : l.id # linha.id})
    IN [sistema EXCEPT !.lines = ls, !.line_dict = update_line_dict(ls)]

\* lines 87-102: load the base system and list its non-fictitious generators
CarregarBase ==
    /\ pc = "inicio"
    /\ sistema_base' = load_system(json)
    /\ geradores_base' =
           LET gs == TodosGeradores(load_system(json))
           IN SeqFilter(gs, {g \in Range(gs) : ~StartsWithGF(g.id)})
    /\ idx' = 0
    /\ pc' = "geradores"
    /\ UNCHANGED <<json, deltas, df, df_final>>
    /\ UNCHANGED <<config_base, resultados, removido, system, model,
                   config_flags, model_built, perdas_finais, resolvendo, spc, erro,
                   hist>>
    /\ UNCHANGED engineVars

\* lines 103-114: start of one pass of the generator loop
IniciarCenarioGerador ==
    /\ pc = "geradores"
    /\ spc = "ocioso"
    /\ idx < Len(geradores_base)
    /\ LET gerador == geradores_base[idx + 1]
       IN /\ NovoSolver(RemoverGerador(CarregarSistema, gerador))
          /\ removido' = gerador.id
    /\ UNCHANGED <<json, deltas, df, df_final>>
    /\ UNCHANGED <<config_base, pc, sistema_base, geradores_base, idx, resultados>>

\* lines 124-126: result of the generator scenario appended
ConcluirCenarioGerador ==
    /\ pc = "geradores"
    /\ spc = "resolvido"
    /\ resultados' = Append(resultados, extrair_resultados(system, removido))
    /\ idx' = idx + 1
    /\ spc' = "ocioso"
    /\ UNCHANGED <<json, deltas, df, df_final>>
    /\ UNCHANGED <<config_base, pc, sistema_base, geradores_base, removido,
                   system, model, config_flags, model_built, perdas_finais,
                   resolvendo, erro, hist>>
    /\ UNCHANGED engineVars

\* variant of PassarParaLinhas: the line loop starts after the first line
PassarParaLinhasSaltando ==
    /\ pc = "geradores"
    /\ spc = "ocioso"
    /\ idx = Len(geradores_base)
    /\ pc' = "linhas"
    /\ idx' = IF Len(sistema_base.lines) > 0 THEN 1 ELSE 0
    /\ UNCHANGED <<json, deltas, df, df_final>>
    /\ UNCHANGED <<config_base, sistema_base, geradores_base, resultados,
                   removido, system, model, config_flags, model_built,
                   perdas_finais, resolvendo, spc, erro, hist>>
    /\ UNCHANGED engineVars

\* generator loop exhausted: on to the line loop (line 129)
PassarParaLinhas ==
    /\ pc = "geradores"
    /\ spc = "ocioso"
    /\ idx = Len(geradores_base)
    /\ pc' = "linhas"
    /\ idx' = 0
    /\ UNCHANGED <<json, deltas, df, df_final>>
    /\ UNCHANGED <<config_base, sistema_base, geradores_base, resultados,
                   removido, system, model, config_flags, model_built,
                   perdas_finais, resolvendo, spc, erro, hist>>
    /\ UNCHANGED engineVars

\* lines 129-140: start of one pass of the line loop
IniciarCenarioLinha ==
    /\ pc = "linhas"
    /\ spc = "ocioso"
    /\ idx < Len(sistema_base.lines)
    /\ LET linha == sistema_base.lines[idx + 1]
       IN /\ NovoSolver(RemoverLinha(CarregarSistema, linha))
          /\ removido' = linha.id
    /\ UNCHANGED <<json, deltas, df, df_final>>
    /\ UNCHANGED <<config_base, pc, sistema_base, geradores_base, idx, resultados>>

\* lines 150-152: result of the line scenario appended
ConcluirCenarioLinha ==
    /\ pc = "linhas"
    /\ spc = "resolvido"
    /\ resultados' = Append(resultados, extrair_resultados(system, removido))
    /\ idx' = idx + 1
    /\ spc' = "ocioso"
    /\ UNCHANGED <<json, deltas, df, df_final>>
    /\ UNCHANGED <<config_base, pc, sistema_base, geradores_base, removido,
                   system, model, config_flags, model_built, perdas_finais,
                   resolvendo, erro, hist>>
    /\ UNCHANGED engineVars

\* line 154: pd.concat(resultados) raises ValueError on an empty list
Retornar ==
    /\ pc = "linhas"
    /\ spc = "ocioso"
    /\ idx = Len(sistema_base.lines)
    /\ IF resultados = <<>>
       THEN /\ pc' = "abortou"
            /\ erro' = "ValueError"
       ELSE /\ pc' = "retornou"
            /\ UNCHANGED erro
    /\ UNCHANGED <<json, deltas, df, df_final>>
    /\ UNCHANGED <<config_base, sistema_base, geradores_base, idx, resultados,
                   removido, system, model, config_flags, model_built,
                   perdas_finais, resolvendo, spc, hist>>
    /\ UNCHANGED engineVars

\* an exception raised by build or solve is not caught in either loop: it
\* leaves simular_n_menos_1
Abortar ==
    /\ pc \in {"geradores", "linhas"}
    /\ spc = "erro"
    /\ pc' = "abortou"
    /\ UNCHANGED <<json, deltas, df, df_final>>
    /\ UNCHANGED <<config_base, sistema_base, geradores_base, idx, resultados,
                   removido, system, model, config_flags, model_built,
                   perdas_finais, resolvendo, spc, erro, hist>>
    /\ UNCHANGED engineVars

-----------------------------------------------------------------------------
(* simular_delta *)

\* lines 45-56: start of one pass of the loop over deltas: the System is
\* loaded, config_base and the delta are written into its config, and a
\* PyomoSolver is constructed on it
IniciarExecucaoDelta ==
    /\ pc = "delta"
    /\ spc = "ocioso"
    /\ idx < Len(deltas)
    /\ NovoSolver([CarregarSistema EXCEPT
                      !.config = Update(@, [k \in {"delta"} |-> deltas[idx + 1]])])
    /\ UNCHANGED <<json, deltas, df, df_final>>
    /\ UNCHANGED <<config_base, pc, sistema_base, geradores_base, idx,
                   resultados, removido>>

\* lines 68-71: the result of the execution, tagged with its position, is
\* appended
ConcluirExecucaoDelta ==
    /\ pc = "delta"
    /\ spc = "resolvido"
    /\ resultados' = Append(resultados,
                            [simulacao |-> extrair_resultados(system, None).simulacao,
                             execucao |-> idx])
    /\ idx' = idx + 1
    /\ spc' = "ocioso"
    /\ UNCHANGED <<json, deltas, df, df_final>>
    /\ UNCHANGED <<config_base, pc, sistema_base, geradores_base, removido,
                   system, model, config_flags, model_built, perdas_finais,
                   resolvendo, erro, hist>>
    /\ UNCHANGED engineVars

\* lines 73-74: the mean time divides by len(deltas), which raises
\* ZeroDivisionError on an empty list
RetornarDelta ==
    /\ pc = "delta"
    /\ spc = "ocioso"
    /\ idx = Len(deltas)
    /\ IF deltas = <<>>
       THEN /\ pc' = "delta_abortou"
            /\ erro' = "ZeroDivisionError"
       ELSE /\ pc' = "delta_retornou"
            /\ UNCHANGED erro
    /\ UNCHANGED <<json, deltas, df, df_final>>
    /\ UNCHANGED <<config_base, sistema_base, geradores_base, idx,
                   resultados, removido, system, model, config_flags, model_built,
                   perdas_finais, resolvendo, spc, hist>>
    /\ UNCHANGED engineVars

\* an exception raised by build or solve is not caught in the loop: it
\* leaves simular_delta
AbortarDelta ==
    /\ pc = "delta"
    /\ spc = "erro"
    /\ pc' = "delta_abortou"
    /\ UNCHANGED <<json, deltas, df, df_final>>
    /\ UNCHANGED <<config_base, sistema_base, geradores_base, idx,
                   resultados, removido, system, model, config_flags, model_built,
                   perdas_finais, resolvendo, spc, erro, hist>>
    /\ UNCHANGED engineVars

-----------------------------------------------------------------------------
(* converter.preparar_n_menos_1 *)
(* A row of the long table is a record simulacao, tipo, id, valor, with a   *)
(* field tempo unless its tempo is None (the FOB row); simulacao is the     *)
(* pair of the flag prefix and the removed element.  A wide column name     *)
(* tipo_id_tempo is the tuple of its parts.                                 *)

\* df["tipo"] + "_" + df["id"], plus "_" + tempo where tempo is not NaN
Coluna(r) ==
    IF "tempo" \in DOMAIN r THEN <<r.tipo, r.id, r.tempo>> ELSE <<r.tipo, r.id>>

\* [c for c in df_final.columns if c.startswith("deficit_")]
ColunasDeficit(colunas) == {c \in colunas : c[1] = "deficit"}

\* variant of ColunasGerFict: the prefix of the docstring's example column
\* ger_GF2_0
ColunasGerFictAbreviado(colunas) == {c \in colunas : c[1] = "ger" /\ StartsWithGF(c[2])}

\* [c for c in df_final.columns if c.startswith("geracao_GF")]
ColunasGerFict(colunas) == {c \in colunas : c[1] = "geracao" /\ StartsWithGF(c[2])}

\* the wide table, one row per simulacao: valores holds the pivoted columns
\* that have a value (the others are NaN), FOB the merged objective values
preparar_n_menos_1(d) ==
    LET df_variaveis == {r \in d : r.tipo # "FOB"}
        simulacoes == {r.simulacao : r \in df_variaveis}
        colunas == {Coluna(r) : r \in df_variaveis}
        linhas_de(s) == {r \in df_variaveis : r.simulacao = s}
        df_wide == [s \in simulacoes |->
                       [c \in {Coluna(r) : r \in linhas_de(s)} |->
                           (CHOOSE r \in linhas_de(s) : Coluna(r) = c).valor]]
        fillna(s, c) == IF c \in DOMAIN df_wide[s] THEN df_wide[s][c] ELSE 0
        cond_deficit(s) == \E c \in ColunasDeficit(colunas) : fillna(s, c) > tolerancia
        cond_ger_fict(s) == \E c \in ColunasGerFict(colunas) : fillna(s, c) > tolerancia
    IN [s \in simulacoes |->
           [valores |-> df_wide[s],
            FOB |-> {r.valor : r \in {q \in d : q.tipo = "FOB" /\ q.simulacao = s}},
            cenario |-> s[2],
            viavel |-> ~(cond_deficit(s) \/ cond_ger_fict(s))]]

\* preparar_n_menos_1(df) is called and returns
PrepararNMenos1 ==
    /\ pc = "preparar"
    /\ df_final' = preparar_n_menos_1(df)
    /\ pc' = "preparado"
    /\ UNCHANGED <<json, deltas, df, config_base, sistema_base, geradores_base, idx,
                   resultados, removido, system, model, config_flags, model_built,
                   perdas_finais, resolvendo, spc, erro, hist>>
    /\ UNCHANGED engineVars

-----------------------------------------------------------------------------
(* Configurations and specifications *)

\* config_base dicts: the four switches that steer flows and losses, plus
\* the solver name that split_config separates
ConfigBases ==
    {[k \in {"considerar_fluxo", "transporte", "fluxo_dc", "considerar_perdas",
             "solver_name"} |->
        CASE k = "considerar_fluxo" -> cf
          [] k = "transporte" -> tr
          [] k = "fluxo_dc" -> dc
          [] k = "considerar_perdas" -> cp
          [] k = "solver_name" -> "highs"] :
        cf \in BOOLEAN, tr \in BOOLEAN, dc \in BOOLEAN, cp \in BOOLEAN}

\* the sweep is explored with the transport model on and DC flow off
ConfigBasesSweep ==
    {c \in ConfigBases : c["considerar_fluxo"] /\ c["transporte"] /\ ~c["fluxo_dc"]}

CargasSweep == {c \in CargasJson : Len(c) > 1}

LinhasSweep == {l \in LinhasJson : l.susceptancia # 0}

DocsSweep ==
    JsonDocs(SeqsUpTo(GeradoresJson, MaxGeradores), LinhasSweep, CargasSweep, {FALSE, TRUE})

DocsSolve ==
    JsonDocs({<<g>> : g \in {q \in GeradoresJson : q.id = <<"G", "1">>}},
             LinhasJson, CargasJson, {FALSE, TRUE})

SolverOcioso ==
    /\ system = None
    /\ model = None
    /\ config_flags = EmptyDict
    /\ model_built = FALSE
    /\ perdas_finais = SemPerdasFinais
    /\ resolvendo = FALSE
    /\ spc = "ocioso"
    /\ erro = None
    /\ iteracao = 0
    /\ convergiu = FALSE
    /\ carga_base = EmptyDict
    /\ perdas_ant = EmptyDict
    /\ hist = HistInicial

\* simular_n_menos_1(json_path, config_base) is called
Init ==
    /\ json \in DocsSweep
    /\ deltas = <<>>
    /\ df = {}
    /\ df_final = EmptyDict
    /\ config_base \in ConfigBasesSweep
    /\ pc = "inicio"
    /\ sistema_base = None
    /\ geradores_base = <<>>
    /\ idx = 0
    /\ resultados = <<>>
    /\ removido = None
    /\ SolverOcioso

SolverNext ==
    \/ Build
    \/ SolveDireto
    \/ IniciarPerdas
    \/ IterarPerdas
    \/ FalharPerdas
    \/ FinalizarPerdas

Next ==
    \/ CarregarBase
    \/ IniciarCenarioGerador
    \/ ConcluirCenarioGerador
    \/ PassarParaLinhas
    \/ IniciarCenarioLinha
    \/ ConcluirCenarioLinha
    \/ Retornar
    \/ Abortar
    \/ SolverNext

Spec == Init /\ [][Next]_vars

\* one PyomoSolver on a freshly loaded System: PyomoSolver(system), then
\* build(**config_modelo) and solve(**config_solver)
InitSolve ==
    /\ json \in DocsSolve
    /\ deltas = <<>>
    /\ df = {}
    /\ df_final = EmptyDict
    /\ config_base \in ConfigBases
    /\ pc = "fora"
    /\ sistema_base = None
    /\ geradores_base = <<>>
    /\ idx = 0
    /\ resultados = <<>>
    /\ removido = None
    /\ system = [load_system(json) EXCEPT !.config = Update(@, config_base)]
    /\ model = ConcreteModel(1)
    /\ hist = Registrar(HistInicial, "novo_modelo")
    /\ config_flags = EmptyDict
    /\ model_built = FALSE
    /\ perdas_finais = SemPerdasFinais
    /\ resolvendo = FALSE
    /\ spc = "novo"
    /\ erro = None
    /\ iteracao = 0
    /\ convergiu = FALSE
    /\ carga_base = EmptyDict
    /\ perdas_ant = EmptyDict

SpecSolve == InitSolve /\ [][SolverNext]_vars

\* documents of the solver that is called again: one generator, one line
\* with a susceptance, one period
DocsRechamada ==
    {d \in JsonDocs({<<g>> : g \in {q \in GeradoresJson : q.id = <<"G", "1">>}},
                    LinhasSweep, CargasJson, {FALSE}) :
         Len(d.linhas) = 1 /\ Len(d.carga) = 1}

\* one PyomoSolver on a freshly loaded System, whose solve() may be called
\* again after it returned
InitRechamada ==
    /\ json \in DocsRechamada
    /\ deltas = <<>>
    /\ df = {}
    /\ df_final = EmptyDict
    /\ config_base \in ConfigBases
    /\ pc = "fora"
    /\ sistema_base = None
    /\ geradores_base = <<>>
    /\ idx = 0
    /\ resultados = <<>>
    /\ removido = None
    /\ system = [load_system(json) EXCEPT !.config = Update(@, config_base)]
    /\ model = ConcreteModel(1)
    /\ hist = Registrar(HistInicial, "novo_modelo")
    /\ config_flags = EmptyDict
    /\ model_built = FALSE
    /\ perdas_finais = SemPerdasFinais
    /\ resolvendo = FALSE
    /\ spc = "novo"
    /\ erro = None
    /\ iteracao = 0
    /\ convergiu = FALSE
    /\ carga_base = EmptyDict
    /\ perdas_ant = EmptyDict

NextRechamada == SolverNext \/ IniciarPerdasDeNovo

SpecRechamada == InitRechamada /\ [][NextRechamada]_vars

\* values of the weight delta
Deltas == {0, 1}

\* documents of the delta sweep: one generator, the lines and load tables
\* of the N-1 sweep
DocsDelta ==
    JsonDocs({<<g>> : g \in {q \in GeradoresJson : q.id = <<"G", "1">>}},
             LinhasSweep, CargasSweep, {FALSE, TRUE})

\* simular_delta(json_path, deltas, config_base) is called
InitDelta ==
    /\ json \in DocsDelta
    /\ deltas \in SeqsUpTo(Deltas, MaxDeltas)
    /\ df = {}
    /\ df_final = EmptyDict
    /\ config_base \in ConfigBasesSweep
    /\ pc = "delta"
    /\ sistema_base = None
    /\ geradores_base = <<>>
    /\ idx = 0
    /\ resultados = <<>>
    /\ removido = None
    /\ SolverOcioso

NextDelta ==
    \/ IniciarExecucaoDelta
    \/ ConcluirExecucaoDelta
    \/ RetornarDelta
    \/ AbortarDelta
    \/ SolverNext

SpecDelta == InitDelta /\ [][NextDelta]_vars

\* the two drivers of experimentos.py
InitExperimentos == Init \/ InitDelta

NextExperimentos == Next \/ NextDelta

SpecExperimentos == InitExperimentos /\ [][NextExperimentos]_vars

\* the simulations of a long table: one prefix, two removed elements
SimulacoesEntrada == {<<"0FVFFFF", <<"GT", "1">>>>, <<"0FVFFFF", <<"L", "0">>>>}

\* the (tipo, id, tempo) of the rows a simulation may have: the output of a
\* fictitious generator in two periods, of a thermal generator, and a deficit
CelulasEntrada ==
    {<<"geracao", <<"GF", "2">>, 0>>, <<"geracao", <<"GF", "2">>, 1>>,
     <<"geracao", <<"GT", "1">>, 0>>, <<"deficit", <<"B", "2">>, 0>>}

\* values of a row: zero, the tolerance itself, above the tolerance
ValoresEntrada == {0, tolerancia, 2 * tolerancia}

\* the long table with the FOB row of every simulation and one row per cell
\* of f
TabelaLonga(f) ==
    {[simulacao |-> s, tipo |-> "FOB", id |-> <<"total", "">>, valor |-> 0] :
         s \in SimulacoesEntrada}
    \cup {[simulacao |-> k[1], tipo |-> k[2][1], id |-> k[2][2], tempo |-> k[2][3],
           valor |-> f[k]] : k \in DOMAIN f}

\* preparar_n_menos_1(df) is about to be called on a long table with any
\* subset of the cells of each simulation and any values (no document, no
\* configuration and no solver take part)
InitPreparar ==
    /\ json = EmptyDict
    /\ deltas = <<>>
    /\ \E presentes \in SUBSET (SimulacoesEntrada \X CelulasEntrada) :
           \E f \in [presentes -> ValoresEntrada] : df = TabelaLonga(f)
    /\ df_final = EmptyDict
    /\ config_base = EmptyDict
    /\ pc = "preparar"
    /\ sistema_base = None
    /\ geradores_base = <<>>
    /\ idx = 0
    /\ resultados = <<>>
    /\ removido = None
    /\ SolverOcioso

SpecPreparar == InitPreparar /\ [][PrepararNMenos1]_vars

\* the switches build_model and its flag appliers read
FlagsBuild == {"considerar_fluxo", "transporte", "fluxo_dc", "deficit", "rampa", "emissao"}

\* configurations of a build: every combination of the switches, delta
\* absent or given, the emission cost coefficient given
ConfigsBuild ==
    {Update(Update([k \in FlagsBuild |-> k \in ligadas],
                   IF temDelta THEN [k \in {"delta"} |-> d] ELSE EmptyDict),
            [k \in {"custo_emissao"} |-> 3]) :
        ligadas \in SUBSET FlagsBuild, temDelta \in BOOLEAN, d \in Deltas}

\* generator tables in document order of their ids
GeradoresBuild ==
    LET ordem(g) == CASE g.id[2] = "1" -> 1 [] g.id[2] = "2" -> 2 [] OTHER -> 3
    IN {gs \in SeqsUpTo(GeradoresJson, MaxGeradores) :
           \A i, j \in 1..Len(gs) : i < j => ordem(gs[i]) < ordem(gs[j])}

DocsBuild == JsonDocs(GeradoresBuild, LinhasJson, CargasJson, {FALSE, TRUE})

\* PyomoSolver(system) on a freshly loaded System whose config received the
\* switches; build(**config) is the only step
InitBuild ==
    /\ json \in DocsBuild
    /\ deltas = <<>>
    /\ df = {}
    /\ df_final = EmptyDict
    /\ config_base \in ConfigsBuild
    /\ pc = "fora"
    /\ sistema_base = None
    /\ geradores_base = <<>>
    /\ idx = 0
    /\ resultados = <<>>
    /\ removido = None
    /\ system = [load_system(json) EXCEPT !.config = Update(@, config_base)]
    /\ model = ConcreteModel(1)
    /\ hist = Registrar(HistInicial, "novo_modelo")
    /\ config_flags = EmptyDict
    /\ model_built = FALSE
    /\ perdas_finais = SemPerdasFinais
    /\ resolvendo = FALSE
    /\ spc = "novo"
    /\ erro = None
    /\ iteracao = 0
    /\ convergiu = FALSE
    /\ carga_base = EmptyDict
    /\ perdas_ant = EmptyDict

SpecBuild == InitBuild /\ [][Build]_vars

-----------------------------------------------------------------------------
(* The N-1 sweep: properties of simular_n_menos_1 *)

\* the removed element named by one result
ElementoRemovido(r) == r.simulacao[8]

\* the ids of the base system's non-fictitious generators in base order,
\* then the ids of its lines in base order
IdsEsperados ==
    LET gs == TodosGeradores(sistema_base)
        reais == SeqFilter(gs, {g \in Range(gs) : g.id[1] # "GF"})
    IN [i \in 1..Len(reais) |-> reais[i].id]
           \o [i \in 1..Len(sistema_base.lines) |-> sistema_base.lines[i].id]

RemovidoUm(base, seq, id) ==
    \E k \in 1..Len(base) :
        /\ base[k].id = id
        /\ seq = SubSeq(base, 1, k - 1) \o SubSeq(base, k + 1, Len(base))

CenarioEmCurso == pc \in {"geradores", "linhas"} /\ spc # "ocioso"

C3_FailureDoesNotCrashSweep ==
    ~(pc = "abortou" /\ erro \in {"RuntimeError", "SolverError", "AttributeError", "KeyError"})

-----------------------------------------------------------------------------
(* One PyomoSolver: properties of solve and of the loss engine *)

PerdasPedidas == Get(config_base, "considerar_perdas")

\* a flow mode is switched on in the configuration
ModoDeFluxo ==
    \/ Get(config_base, "transporte")
    \/ Get(config_base, "fluxo_dc")
    \/ Get(config_base, "considerar_fluxo")

\* the loss engine has been entered by this solver
EngineEntrou == resolvendo \/ convergiu

\* C4 (as the specification states it): unless losses are requested and a
\* flow mode is on, the loss engine is never entered, no loss is computed, at
\* most one solver call is made (exactly one once solve has returned) and the
\* demands stay as loaded.
C4_EngineOnlyWithFlowMode ==
    ~(PerdasPedidas /\ ModoDeFluxo) =>
        /\ ~EngineEntrou
        /\ spc # "loop"
        /\ hist.calcs = 0
        /\ hist.solves <= 1
        /\ spc = "resolvido" => hist.solves = 1
        /\ spc # "ocioso" => system.load_profile = load_system(json).load_profile

\* C5 (as the specification states it): the loop makes at most max_iter
\* solver calls, and when no solver call has raised, an engine run that has
\* ended is either converged or failed with the RuntimeError of exhaustion,
\* never both and never neither.
C5_EngineEndsConvergedOrFailed ==
    /\ spc = "loop" => hist.solves <= max_iter /\ iteracao <= max_iter
    /\ (EngineEntrou /\ spc \in {"resolvido", "erro"} /\ erro # "SolverError") =>
           /\ convergiu \/ erro = "RuntimeError"
           /\ ~(convergiu /\ erro = "RuntimeError")

solverVars ==
    <<system, model, config_flags, model_built, perdas_finais, resolvendo, spc, erro,
      iteracao, convergiu, carga_base, perdas_ant, hist>>

\* C6: when max_iter passes of the loop have gone by without convergence the
\* engine raises RuntimeError and does nothing else: the failure follows
\* max_iter solver calls and max_iter in-loop rebuilds, the last event is the
\* rebuild of the last pass, no further model is created, built or solved,
\* _perdas_finais is still unset, and nothing happens to the solver afterwards.
C6_ExhaustionFailsAndStops ==
    /\ [](erro = "RuntimeError" =>
              /\ spc = "erro"
              /\ ~convergiu
              /\ iteracao = max_iter
              /\ ~perdas_finais.definido
              /\ hist.solves = max_iter
              /\ hist.calcs = max_iter
              /\ hist.builds = max_iter + 1
              /\ hist.modelos = max_iter + 1
              /\ hist.ultimo = "build"
              /\ model.solves = 0)
    /\ [][(spc = "loop" /\ ~convergiu /\ iteracao = max_iter) =>
              /\ erro' = "RuntimeError"
              /\ hist' = hist
              /\ model' = model
              /\ system' = system
              /\ perdas_finais' = perdas_finais]_vars
    /\ [][erro = "RuntimeError" => UNCHANGED solverVars]_vars

\* the engine has failed by exhaustion
C6_Witness ==
    /\ spc = "erro"
    /\ erro = "RuntimeError"
    /\ iteracao = max_iter

\* C7: when the loop converges in pass k (iteracao = k + 1 afterwards) the
\* instance solved in that pass is not rebuilt inside the loop; after the loop
\* one new instance is built from the converged demands and solved once, it is
\* the instance the solver holds on return, the solver was called k + 2 times
\* in all, and the final solve is the last thing that happened.
C7_ConvergedFinalSolve ==
    /\ (spc = "loop" /\ convergiu) =>
           /\ hist.ultimo = "calc"
           /\ hist.solves = iteracao
           /\ hist.builds = iteracao
           /\ hist.modelos = iteracao
           /\ model.serial = iteracao
           /\ model.solves = 1
    /\ (spc = "resolvido" /\ convergiu) =>
           /\ hist.ultimo = "solve"
           /\ hist.solves = iteracao + 1
           /\ hist.calcs = iteracao
           /\ hist.builds = iteracao + 1
           /\ hist.modelos = iteracao + 1
           /\ model.serial = iteracao + 1
           /\ model.solves = 1
           /\ model.demanda = DictCargas(system)
           /\ \A k \in DOMAIN model.demanda :
                  model.demanda[k] = carga_base[k] + perdas_finais.perda_linha[k]
           /\ ~resolvendo

\* solve has returned after the loop converged in its third pass on non-zero
\* losses
C7_Witness ==
    /\ spc = "resolvido"
    /\ convergiu
    /\ iteracao = 3
    /\ perdas_finais.perda_total > 0

\* sum over the keys of |atual - ant|
DeltaPerdas(ant, atual) ==
    SumOver([k \in DOMAIN atual |->
                IF atual[k] >= ant[k] THEN atual[k] - ant[k] ELSE ant[k] - atual[k]],
            DOMAIN atual)

\* a pass of the loop has been completed by this step
PassoConcluido == hist'.calcs = hist.calcs + 1 /\ spc' = "loop"

\* the loss of the pass before (all zero before the first pass)
PerdasDoPassoAnterior ==
    IF hist.calcs = 0
    THEN [k \in Range(system.bus_ids) \X Periodos(system) |-> 0]
    ELSE hist.perdas

\* C8: a pass is run only while the engine is not converged; it marks the
\* engine converged exactly when the sum over (bus, period) of the absolute
\* difference between its loss and the loss of the pass before (all zero
\* before the first pass) is below epsilon; the previous-loss estimate is
\* replaced by the new loss if the pass did not converge and kept otherwise;
\* a first pass with zero loss everywhere converges (pass 0).
C8_ConvergenceTest ==
    [][PassoConcluido =>
          LET d == DeltaPerdas(PerdasDoPassoAnterior, hist'.perdas)
          IN /\ ~convergiu
             /\ convergiu' <=> d < epsilon
             /\ perdas_ant' = IF d < epsilon THEN perdas_ant ELSE hist'.perdas
             /\ (hist.calcs = 0 /\ \A k \in DOMAIN hist'.perdas : hist'.perdas[k] = 0) =>
                    convergiu' /\ iteracao' = 1]_vars

\* the loop has converged in its third pass, on a non-zero loss that repeated
\* the loss of the second pass
C8_Witness ==
    /\ spc = "loop"
    /\ convergiu
    /\ iteracao = 3
    /\ perdas_finais.perda_total > 0
    /\ perdas_ant = perdas_finais.perda_linha

\* the demands of the loaded document, by (bus, period)
BaseCarregada == DictCargas(load_system(json))

\* C9: once the engine has captured the base demands, the capture stays equal
\* to the demands as loaded; after the demand update of any pass every load
\* holds the captured demand of its (bus, period) plus the loss that pass
\* computed there, whatever the passes before added.
C9_DemandIsBasePlusCurrentLoss ==
    EngineEntrou =>
        LET base == BaseCarregada
        IN /\ carga_base = base
           /\ DOMAIN hist.perdas # {} =>
                  \A p \in 1..Len(system.load_profile) :
                      \A j \in 1..Len(system.load_profile[p]) :
                          LET carga == system.load_profile[p][j]
                          IN carga.demand = base[<<carga.bus, p - 1>>]
                                                + hist.perdas[<<carga.bus, p - 1>>]

\* in its second pass the demand update wrote loads for a loss that differs
\* from the non-zero loss of the first pass
C9_Witness ==
    /\ spc = "loop"
    /\ iteracao = 2
    /\ ~convergiu
    /\ \E k \in DOMAIN perdas_ant : perdas_ant[k] = 0 /\ carga_base[k] > 0
    /\ \E k \in DOMAIN perdas_ant : perdas_ant[k] > 0

-----------------------------------------------------------------------------
(* calcular_perdas on its own: any solved instance that carries the        *)
(* components the function reads, flows of either sign, both flow modes    *)

LinhasPerdas ==
    LinhasJson \cup
        {[de |-> B2, para |-> B1, limite |-> 4, susceptancia |-> 2, condutancia |-> 12],
         [de |-> B3, para |-> B1, limite |-> 4, susceptancia |-> 4, condutancia |-> 8]}

DocsPerdas ==
    JsonDocs({<<g>> : g \in {q \in GeradoresJson : q.id = <<"G", "1">>}},
             LinhasPerdas, {c \in CargasJson : Len(c) = 1}, {FALSE})

FluxosPerdas == {-2, 0, 2}

\* the solved instances of a System: built with the transport model, plus
\* the angle variable when the System asks for DC flow, and every value the
\* solver may have left in the variable calcular_perdas reads
InstanciasResolvidas(sys) ==
    LET m == Define(Construir(ConcreteModel(1), sys), {"theta"})
    IN IF Get(sys.config, "fluxo_dc")
       THEN {[m EXCEPT !.sol = [F |-> EmptyDict, theta |-> th], !.solves = 1] :
                 th \in [m.B \X m.T -> ThetaVals]}
       ELSE {[m EXCEPT !.sol = [F |-> f, theta |-> EmptyDict], !.solves = 1] :
                 f \in [m.L \X m.T -> FluxosPerdas]}

InitPerdas ==
    /\ json \in DocsPerdas
    /\ deltas = <<>>
    /\ df = {}
    /\ df_final = EmptyDict
    /\ config_base \in {c \in ConfigBases :
                            c["considerar_fluxo"] /\ c["transporte"] /\ c["considerar_perdas"]}
    /\ pc = "perdas"
    /\ sistema_base = None
    /\ geradores_base = <<>>
    /\ idx = 0
    /\ resultados = <<>>
    /\ removido = None
    /\ system = [load_system(json) EXCEPT !.config = Update(@, config_base)]
    /\ model \in InstanciasResolvidas(system)
    /\ hist = Registrar(Registrar(Registrar(HistInicial, "novo_modelo"), "build"), "solve")
    /\ config_flags = split_config(config_base)[1]
    /\ model_built = TRUE
    /\ perdas_finais = SemPerdasFinais
    /\ resolvendo = TRUE
    /\ spc = "loop"
    /\ erro = None
    /\ iteracao = 0
    /\ convergiu = FALSE
    /\ carga_base = armazenar_carga_base(system)
    /\ perdas_ant = inicializar_perdas(system)

\* perdas_atuais, perda_total = calcular_perdas(self.model, self.system)
CalcularPerdas ==
    /\ pc = "perdas"
    /\ hist.calcs = 0
    /\ LET r == calcular_perdas(model, system)
       IN /\ r.falhou = None
          /\ perdas_finais' = [definido |-> TRUE, perda_linha |-> r.perdas,
                               perda_total |-> r.perda_total]
          /\ hist' = [Registrar(hist, "calc") EXCEPT !.perdas = r.perdas]
    /\ UNCHANGED <<json, deltas, df, df_final>>
    /\ UNCHANGED <<config_base, system, model, config_flags, model_built,
                   resolvendo, spc, erro>>
    /\ UNCHANGED sweepVars
    /\ UNCHANGED engineVars

SpecPerdas == InitPerdas /\ [][CalcularPerdas]_vars

\* the lines of the system by position, and the loss of each in a period
PerdaDaLinha(k, t) == PerdaLinha(model, system, system.lines[k], t)

\* C10: calcular_perdas gives each end bus of a line half of the line's loss
\* in each period: twice the loss of a (bus, period) is the loss of the lines
\* leaving the bus plus the loss of the lines arriving at it, and the sum of
\* the per-bus losses, the total returned and the sum of the line losses over
\* lines and periods are one number.
C10_LossSplitAndTotal ==
    (pc = "perdas" /\ hist.calcs = 1) =>
        LET perdas == perdas_finais.perda_linha
            ks == 1..Len(system.lines)
            Saindo(b) == {k \in ks : system.lines[k].from_bus = b}
            Chegando(b) == {k \in ks : system.lines[k].to_bus = b}
        IN /\ DOMAIN perdas = Range(system.bus_ids) \X model.T
           /\ \A c \in DOMAIN perdas :
                  2 * perdas[c] =
                      SumOver([k \in ks |-> PerdaDaLinha(k, c[2])], Saindo(c[1]))
                          + SumOver([k \in ks |-> PerdaDaLinha(k, c[2])], Chegando(c[1]))
           /\ SumOver(perdas, DOMAIN perdas) = perdas_finais.perda_total
           /\ perdas_finais.perda_total =
                  SumOver([c \in ks \X model.T |-> PerdaDaLinha(c[1], c[2])], ks \X model.T)

\* losses were computed for two lines that meet at a bus, both with loss, one
\* of them carrying a flow against its direction
C10_Witness ==
    /\ pc = "perdas"
    /\ hist.calcs = 1
    /\ Len(system.lines) = 2
    /\ ~Get(system.config, "fluxo_dc")
    /\ \E t \in model.T :
           /\ model.sol.F[<<system.lines[1].id, t>>] < 0
           /\ PerdaDaLinha(1, t) > 0
           /\ PerdaDaLinha(2, t) > 0
           /\ system.lines[1].to_bus = system.lines[2].from_bus

-----------------------------------------------------------------------------
(* the loss engine and the instance it returns *)

\* the total loss calcular_perdas finds in the flows (or angles) the
\* instance the solver holds carries
PerdaTotalDaInstancia == calcular_perdas(model, system).perda_total

SolverInvocado == spc = "loop" /\ hist'.solves = hist.solves + 1

\* C12: whenever the engine invokes the solver, the instance solved was built
\* after the latest demand update: an in-loop solve acts on an instance never
\* solved before whose demanda equals the System's loads, the final solve
\* acts on a new instance built from the loads the converged pass wrote; no
\* instance is solved twice.
C12_SolvedInstanceIsFresh ==
    /\ [](spc \in {"loop", "resolvido", "erro"} => model.solves <= 1)
    /\ [][SolverInvocado =>
             IF convergiu
             THEN /\ model'.serial = hist.modelos + 1
                  /\ model'.serial # model.serial
                  /\ model'.demanda = DictCargas(system)
                  /\ system' = system
                  /\ model'.solves <= 1
             ELSE /\ model.solves = 0
                  /\ model.demanda = DictCargas(system)
                  /\ model'.serial = model.serial \/ model'.solves = 0]_vars

\* the final solve has run on an instance built after two demand updates, the
\* last of which left loads above the base demand
C12_Witness ==
    /\ spc = "resolvido"
    /\ convergiu
    /\ iteracao >= 2
    /\ model.solves = 1
    /\ DictCargas(system) # carga_base
    /\ model.demanda = DictCargas(system)

-----------------------------------------------------------------------------
(* build_model: the structure of the assembled model *)

\* build_model has returned: the instance is an assembled model
Montado == spc = "construido"

Flag(nome) == Get(system.config, nome)

\* the fictitious generators of the System
FicticiosDoSistema == {g \in IdsGeradores(system) : StartsWithGF(g)}

\* the generators that are not fictitious
ReaisDoSistema == {g \in IdsGeradores(system) : ~StartsWithGF(g)}

DeficitPresente == "Deficit" \in model.comps

\* C13: in every assembled model, either the deficit switch is off, there is
\* no Deficit variable and no fictitious-generator output is constrained, or
\* the deficit switch is on, the Deficit variables are present and every
\* output P[g, t] of a fictitious generator is forced to zero.
C13_DeficitFictitiousExclusivity ==
    Montado =>
        \/ /\ ~Flag("deficit")
           /\ ~DeficitPresente
           /\ model.restringe_GF = {}
        \/ /\ Flag("deficit")
           /\ DeficitPresente
           /\ FicticiosDoSistema \X model.T \subseteq model.restringe_GF

\* C14: whenever the fluxo_dc switch is on, with transporte on or off, the
\* assembled model carries the angle variables theta and the from/to
\* parameters of the DC formulation, so that the losses can be computed from
\* angle differences; without the switch it carries no theta.
C14_DCFlowTakesPrecedence ==
    Montado =>
        IF Flag("fluxo_dc")
        THEN {"theta", "de", "para", "F"} \subseteq model.comps
        ELSE "theta" \notin model.comps

\* C15: for every configuration of the switches no stage of build_model reads
\* a set, parameter or variable before a stage (or an earlier step of the
\* same stage) has defined it.
C15_StagesReadDefinedComponents ==
    hist.builds > 0 => model.falta = None

\* the per-bus balance equation of bus b and period t, from the System
BalancoDaBarra(b, t) ==
    [P |-> {<<system.generators[b][k].id, t>> : k \in 1..Len(system.generators[b])},
     entrada |-> {<<system.lines[k].id, t>> :
                     k \in {n \in 1..Len(system.lines) : system.lines[n].to_bus = b}},
     saida |-> {<<system.lines[k].id, t>> :
                   k \in {n \in 1..Len(system.lines) : system.lines[n].from_bus = b}},
     Deficit |-> IF Flag("deficit") /\ <<b, t>> \in IndiceD(system)
                 THEN {<<b, t>>} ELSE {},
     carga |-> {<<b, t>>}]

\* the system-wide balance equation of period t, from the System
BalancoDoSistema(t) ==
    [P |-> IdsGeradores(system) \X {t},
     entrada |-> {},
     saida |-> {},
     Deficit |-> IF Flag("deficit") THEN {k \in IndiceD(system) : k[2] = t} ELSE {},
     carga |-> model.B \X {t}]

\* an equation of the model, its Deficit terms reduced to their indices
Equacao(eq) == [eq EXCEPT !.Deficit = {d.idx : d \in eq.Deficit}]

\* C16: with transporte or fluxo_dc on, the assembled model has exactly one
\* balance equation per (bus, period), generation at the bus plus inflow
\* minus outflow plus the deficit of the bus equal to the demand of the bus;
\* with neither on, exactly one balance equation per period over the whole
\* system, and none per bus.
C16_BalanceShape ==
    Montado =>
        IF Flag("transporte") \/ Flag("fluxo_dc")
        THEN /\ model.balanco.indice = "B,T"
             /\ DOMAIN model.balanco.eqs = model.B \X model.T
             /\ \A k \in model.B \X model.T :
                    Equacao(model.balanco.eqs[k]) = BalancoDaBarra(k[1], k[2])
        ELSE /\ model.balanco.indice = "T"
             /\ DOMAIN model.balanco.eqs = {<<t>> : t \in model.T}
             /\ \A t \in model.T :
                    Equacao(model.balanco.eqs[<<t>>]) = BalancoDoSistema(t)

\* C17: the assembled model has ramp constraints only if the rampa switch is
\* on; then for every generator g and every period t > 0 it has both
\* P[g, t] - P[g, t-1] <= rampa[g] and P[g, t-1] - P[g, t] <= rampa[g], and
\* no ramp constraint at period 0.
C17_RampConstraints ==
    Montado =>
        IF Flag("rampa")
        THEN /\ DOMAIN model.rampa_sup = DOMAIN model.rampa_inf
             /\ \A g \in IdsGeradores(system) : \A t \in model.T :
                    IF t > 0
                    THEN /\ <<g, t>> \in DOMAIN model.rampa_sup
                         /\ model.rampa_sup[<<g, t>>] =
                                [maior |-> <<g, t>>, menor |-> <<g, t - 1>>, limite |-> g]
                         /\ model.rampa_inf[<<g, t>>] =
                                [maior |-> <<g, t - 1>>, menor |-> <<g, t>>, limite |-> g]
                    ELSE <<g, t>> \notin DOMAIN model.rampa_sup
             /\ DOMAIN model.rampa_sup \subseteq IdsGeradores(system) \X model.T
        ELSE /\ DOMAIN model.rampa_sup = {}
             /\ DOMAIN model.rampa_inf = {}
             /\ model.comps \cap {"rampa_inf", "rampa_sup"} = {}

\* a model with ramp constraints of two generators was assembled
C17_Witness ==
    /\ Montado
    /\ Flag("rampa")
    /\ \E k, q \in DOMAIN model.rampa_inf : k[1] # q[1]

\* the objective build_model gives the System under another configuration
ObjetivoCom(cfg) ==
    build_model(ConcreteModel(1), [system EXCEPT !.config = Update(@, cfg)]).objetivo

\* C18: with the emissao switch off the objective has no emission term and
\* is the plain cost, the same whatever delta is: it equals the objective of
\* the same System assembled with any other delta, and, term by term, the
\* non-zero part of the objective with emissao on and delta = 1.
C18_NoDeltaWithoutEmission ==
    (Montado /\ ~Flag("emissao")) =>
        /\ \A t \in model.objetivo.fob_emissao : t.param = "custo" /\ t.peso = 1
        /\ \A d \in Deltas : ObjetivoCom([k \in {"delta"} |-> d]) = model.objetivo
        /\ LET ligado == ObjetivoCom([k \in {"delta", "emissao"} |->
                                         IF k = "delta" THEN 1 ELSE TRUE])
           IN /\ {t \in ligado.fob_emissao : t.peso # 0} = model.objetivo.fob_emissao
              /\ ligado.custo_deficit = model.objetivo.custo_deficit

\* a model without emission was assembled with delta = 0 and has cost terms
C18_Witness ==
    /\ Montado
    /\ ~Flag("emissao")
    /\ "delta" \in DOMAIN system.config
    /\ system.config["delta"] = 0
    /\ model.objetivo.fob_emissao # {}

\* C19: in the objective the cost of a generator that is not fictitious is a
\* term of fob_emissao only, the cost of a fictitious generator is a term of
\* custo_deficit only, with weight 1, and only when there are no Deficit
\* variables; when Deficit variables exist custo_deficit is the sum of
\* Deficit[b, t] * cost_deficit[b, t] over them; no cost is counted twice.
C19_CostSeparation ==
    Montado =>
        LET obj == model.objetivo
            custos(parte) == {t \in parte : t.param = "custo"}
        IN /\ \A t \in custos(obj.fob_emissao) : t.idx[1] \in ReaisDoSistema
           /\ \A k \in ReaisDoSistema \X model.T :
                  \E t \in custos(obj.fob_emissao) : t.var = "P" /\ t.idx = k
           /\ \A t \in custos(obj.custo_deficit) :
                  t.idx[1] \in FicticiosDoSistema /\ t.peso = 1
           /\ IF DeficitPresente
              THEN obj.custo_deficit =
                       {Termo("Deficit", model.Deficit.versao, k, "cost_deficit", 1) :
                           k \in model.Deficit.indice}
              ELSE obj.custo_deficit =
                       {Termo("P", 0, k, "custo", 1) : k \in FicticiosDoSistema \X model.T}

-----------------------------------------------------------------------------
(* the load table across loading, N-1 removal and loss updates *)

\* every bus has a load entry in every period of the load profile
CargaEmTodaBarra(sys) ==
    \A p \in 1..Len(sys.load_profile) :
        \A b \in Range(sys.bus_ids) :
            \E j \in 1..Len(sys.load_profile[p]) : sys.load_profile[p][j].bus = b

\* C20: the System load_system returns has at least one load entry for every
\* bus in every period; so has every scenario System after its generator or
\* line was removed and after every demand update of the loss engine, and
\* the demanda parameter of every built instance is defined on all of B x T.
C20_EveryBusHasLoad ==
    /\ pc \notin {"inicio", "fora"} => CargaEmTodaBarra(sistema_base)
    /\ hist.modelos > 0 =>
           /\ CargaEmTodaBarra(system)
           /\ Range(system.bus_ids) \X Periodos(system) \subseteq DOMAIN DictCargas(system)
           /\ hist.builds > 0 => model.B \X model.T \subseteq DOMAIN model.demanda

\* in a line-removal scenario the loss engine has rewritten the demands, and
\* the load table holds an entry the loader added for a bus without load
C20_Witness ==
    /\ pc = "linhas"
    /\ hist.modelos > 0
    /\ removido[1] = "L"
    /\ spc = "loop"
    /\ iteracao >= 1
    /\ DictCargas(system) # carga_base
    /\ \E p \in 1..Len(system.load_profile) :
           \E j \in 1..Len(system.load_profile[p]) :
               system.load_profile[p][j].id[1] = "CF"

-----------------------------------------------------------------------------
(* the loader's balancing mechanisms and the N-1 removals *)

\* the fictitious generators attached to bus b
FicticiosEm(sys, b) ==
    SeqFilter(sys.generators[b], {g \in Range(sys.generators[b]) : StartsWithGF(g.id)})

\* the buses that carry a load in the document
BarrasComCargaNoDocumento ==
    UNION {{json.carga[p][j].barra : j \in 1..Len(json.carga[p])} : p \in 1..Len(json.carga)}

\* C21: in the System load_system returns, without deficits every bus that
\* carries a load in the document has exactly one fictitious generator, every
\* other bus has none and the deficit list is empty; with deficits no bus has
\* a fictitious generator.  The System of every N-1 scenario has, bus by bus,
\* the fictitious generators of the loaded System.
C21_BalancingMechanismsExclusive ==
    pc \notin {"inicio", "fora"} =>
        /\ IF Get(json.config, "usar_deficit")
           THEN \A b \in Range(sistema_base.bus_ids) : FicticiosEm(sistema_base, b) = <<>>
           ELSE /\ sistema_base.deficits = <<>>
                /\ \A b \in Range(sistema_base.bus_ids) :
                       Len(FicticiosEm(sistema_base, b)) =
                           IF b \in BarrasComCargaNoDocumento THEN 1 ELSE 0
        /\ hist.modelos > 0 =>
               \A b \in Range(sistema_base.bus_ids) :
                   FicticiosEm(system, b) = FicticiosEm(sistema_base, b)

\* a generator was removed from a System that has fictitious generators at
\* its load buses and a bus without load
C21_Witness ==
    /\ pc = "geradores"
    /\ hist.modelos > 0
    /\ ~Get(json.config, "usar_deficit")
    /\ Len(TodosGeradores(system)) < Len(TodosGeradores(sistema_base))
    /\ \E b \in Range(system.bus_ids) : FicticiosEm(system, b) # <<>>
    /\ \E b \in Range(system.bus_ids) : FicticiosEm(system, b) = <<>>

-----------------------------------------------------------------------------
(* build_model as a function of the System *)

\* an instance without the identity of its ConcreteModel object
SemIdentidade(m) == [m EXCEPT !.serial = 0]

\* the System the solver was constructed with
SistemaEntregue == [load_system(json) EXCEPT !.config = Update(@, config_base)]

-----------------------------------------------------------------------------
(* the Systems of the scenarios of a sweep *)

\* a scenario of the delta sweep or of the N-1 sweep is in progress
EmCenario == pc \in {"geradores", "linhas", "delta"} /\ spc # "ocioso"

\* the scenarios concluded so far
CenariosConcluidos ==
    CASE pc = "geradores" -> idx
      [] pc = "linhas" -> Len(geradores_base) + idx
      [] pc = "delta" -> idx

C23_WitnessNMenos1 ==
    /\ pc = "linhas"
    /\ idx = 1
    /\ spc = "resolvido"
    /\ carga_base # EmptyDict
    /\ DictCargas(system) # carga_base

-----------------------------------------------------------------------------
(* the feasibility flag of preparar_n_menos_1 *)

\* a row that reports the output of a fictitious generator or a deficit
LinhaDeSocorro(r) ==
    \/ r.tipo = "deficit"
    \/ r.tipo = "geracao" /\ StartsWithGF(r.id)

-----------------------------------------------------------------------------
(* build_model: components defined more than once *)

\* C25: for every combination of the configuration keys, build_model on a
\* fresh instance defines no named component twice: no set, parameter,
\* variable, constraint or expression that one stage defined is defined
\* again by a later stage or flag applier.
C25_NoComponentDefinedTwice ==
    hist.builds > 0 => model.redefinidos = {}

-----------------------------------------------------------------------------
(* System.get_deficit *)

\* the Deficits of sys for the bus and the period
DeficitsDe(sys, bus, period) ==
    {d \in Range(sys.deficits) : d.bus = bus /\ d.period = period}

\* C26: on the loaded System and on the System of every scenario,
\* get_deficit(bus, period) returns a Deficit of that bus and period whenever
\* the deficit list holds one (the loader adds them after the System was
\* constructed), and None only when it holds none.
C26_GetDeficitFindsLoadedDeficits ==
    pc \notin {"inicio", "fora"} =>
        \A b \in Range(sistema_base.bus_ids) : \A t \in Periodos(sistema_base) :
            IF DeficitsDe(sistema_base, b, t) # {}
            THEN get_deficit(sistema_base, b, t) \in DeficitsDe(sistema_base, b, t)
            ELSE get_deficit(sistema_base, b, t) = NenhumDeficit

-----------------------------------------------------------------------------
(* the line index of a System *)

\* the keys of line_dict are the ids of the lines, and each key leads to the
\* line of the list with that id
IndiceDeLinhasEmDia(sys) ==
    /\ DOMAIN sys.line_dict = {l.id : l \in Range(sys.lines)}
    /\ \A id \in DOMAIN sys.line_dict :
           /\ sys.line_dict[id] \in Range(sys.lines)
           /\ sys.line_dict[id].id = id

\* C27: the line index of the System load_system returns and of the System
\* of every scenario agrees with its line list, and in a line scenario the
\* removed line is neither in the list nor reachable through the index.
C27_LineIndexFollowsLineList ==
    /\ pc \notin {"inicio", "fora"} => IndiceDeLinhasEmDia(sistema_base)
    /\ CenarioEmCurso =>
           /\ IndiceDeLinhasEmDia(system)
           /\ pc = "linhas" =>
                  /\ removido \notin DOMAIN system.line_dict
                  /\ \A l \in Range(system.lines) : l.id # removido

\* a line scenario on a System loaded with two lines: one line is left, and
\* the index holds it alone
C27_Witness ==
    /\ CenarioEmCurso
    /\ pc = "linhas"
    /\ Len(sistema_base.lines) = 2
    /\ Len(system.lines) = 1
    /\ DOMAIN system.line_dict = {system.lines[1].id}
    /\ removido \in DOMAIN sistema_base.line_dict

-----------------------------------------------------------------------------
(* the Deficit variable of an assembled model *)

\* the Deficit terms of the balance equations
DeficitNoBalanco ==
    UNION {model.balanco.eqs[k].Deficit : k \in DOMAIN model.balanco.eqs}

\* C28: in an assembled model with the deficit switch on, every Deficit term
\* of a balance equation is a member of the Deficit variable the model ends
\* up with (same variable, inside its index set), which is the variable that
\* limite_deficit bounds and custo_deficit prices.
C28_BalanceUsesBoundedDeficit ==
    (Montado /\ Flag("deficit")) =>
        /\ \A d \in DeficitNoBalanco :
               /\ d.versao = model.Deficit.versao
               /\ d.idx \in model.Deficit.indice
        /\ model.limite_deficit = model.Deficit.indice
        /\ \A t \in model.custo_deficit :
               /\ t.var = "Deficit"
               /\ t.versao = model.Deficit.versao
               /\ t.idx \in model.Deficit.indice

-----------------------------------------------------------------------------
(* the loss engine run again on the same solver *)

\* the demand of the System as the loader delivered it
DemandaCarregada == armazenar_carga_base(SistemaEntregue)

\* C29: when solve() runs the loss engine a second time on the same solver
\* and System, the base demand it captures is the demand as loaded, and the
\* demand it leaves after converging is that base plus the loss of its last
\* pass (not the base plus the losses of both runs).
C29_SecondLossRunStartsFromLoadedDemand ==
    hist.rechamadas > 0 =>
        /\ carga_base = DemandaCarregada
        /\ spc = "resolvido" =>
               DictCargas(system) =
                   [k \in DOMAIN DemandaCarregada |-> DemandaCarregada[k] + hist.perdas[k]]

-----------------------------------------------------------------------------
(* the per-bus balances add up to the system-wide balance *)

\* the per-bus balance equations of period t in which the term appears on
\* the given side
BarrasCom(lado, termo, t) ==
    {b \in model.B : termo \in model.balanco.eqs[<<b, t>>][lado]}

====
